---- MODULE Spec2Model ----
(***************************************************************************)
(* State-machine model of the WhiteLabel lazy resolver (src/wl.py), its    *)
(* earlier revision (src/white_label.py), the file loader                  *)
(* (src/core/file.py), the singleton service lifecycle                     *)
(* (src/core/service.py) and the hook registry (src/core/events.py).       *)
(*                                                                         *)
(* Strings are sequences of one-character strings, so that the name codec  *)
(* (camel_to_snake / snake_to_camel) and the path construction             *)
(* f'{path}.py' are computed as the code computes them.                    *)
(***************************************************************************)
EXTENDS Integers, Sequences, FiniteSets, TLC

VARIABLES
    fs,             \* the directory tree: set of <<path, kind>>
    plugins,        \* WL._plugins: plugin classes in registration order
    ns_cache,       \* WL._ns_cache: set of <<path, value>>
    class_cache,    \* WL._class_cache: set of <<path, value>>
    data_cache,     \* WL._data_cache: set of <<path, value>>
    module_cache,   \* _MODULE_CACHE of wl.py: set of executed file paths
    common_cache,   \* _MODULE_CACHE of core/common.py: set of executed file paths
    heap,           \* number of objects allocated so far (object identity)
    hist,           \* per path, the first cacheable value _resolve returned
    last            \* the last call: its inputs, outcome and the calls it made

resVars == <<fs, plugins, ns_cache, class_cache, data_cache, module_cache,
             common_cache, heap, hist, last>>

VARIABLES
    services,         \* the entries of the mapping lib._services resolves to:
                      \* set of <<class object, instance>>
    svc_lock,         \* Service._lock: 0 when free, else the thread holding it
    instance_counter, \* Module._instance_counter
    objs,             \* the Module instances the constructor calls have made,
                      \* by __instance_id__
    init_calls,       \* per service class, the calls of initialize() started
    init_ok,          \* per service class, the calls of initialize() that returned
    init_failed,      \* per service class, the calls of initialize() that raised
    started,          \* number of constructor calls and resolutions started
    pc,               \* per thread, the statement it is at
    call,             \* per thread, the call it is in and its local variables
    ret,              \* per thread, the outcome of its last call
    execs,            \* per loader (or "ext", the callers) and code file, the
                      \* times it has executed the file
    mod_held          \* the module object each _MODULE_CACHE holds for a file

svcVars == <<services, svc_lock, instance_counter, objs, init_calls, init_ok,
             init_failed, started, pc, call, ret, execs, mod_held>>

VARIABLES
    triggers,         \* Events.triggers: set of <<trigger, list of callbacks>>
    ev_last           \* the last call on the hook registry and its outcome

evVars == <<triggers, ev_last>>

VARIABLES
    lib_instances,    \* _instances of WL and of WhiteLabel: set of <<subtype, object>>
    lib_lock,         \* _lock of WL and of WhiteLabel: 0 when free, else the holder
    lib_inits,        \* per library subtype, the number of initialize() calls
    lib_made          \* number of library objects created by super().__new__(cls)

libVars == <<lib_instances, lib_lock, lib_inits, lib_made>>

VARIABLES
    mod_last          \* the last member access on a Module instance and its outcome

modVars == <<mod_last>>

VARIABLES
    fn_last           \* the last callables wrapped into Functions and compared

fnVars == <<fn_last>>

VARIABLES
    codec_last        \* the last name converted to a public name and back

codecVars == <<codec_last>>

VARIABLES
    pkg_cache,        \* WL._pkg_cache: set of <<path of an __init__.py, its module>>
    ns_last           \* the last attribute access on a namespace handle and its outcome

nsVars == <<pkg_cache, ns_last>>

VARIABLES
    conf_data,        \* Conf._data: the overlay store, has FALSE while the attribute is absent
    environ,          \* os.environ: set of <<key, value>>
    conf_last         \* the last call on the Conf service and its outcome

confVars == <<conf_data, environ, conf_last>>

VARIABLES
    init_plan,        \* per service class, what its initialize() does: nothing, or a call for another service
    stack,            \* per thread, the suspended calls whose initialize() is waiting for a nested call
    nested_made       \* the <<thread, instance>> whose initialize() has made its nested call

nestVars == <<init_plan, stack, nested_made>>

VARIABLES
    firing            \* the firing of a trigger in progress: the trigger, the position of the loop, the callbacks attached when it began and those invoked

fireVars == <<firing>>

\* What the actions of one component leave alone
outsideResolver == <<svcVars, evVars, libVars, modVars, fnVars, codecVars, nsVars, confVars, nestVars, fireVars>>
outsideServices == <<evVars, libVars, modVars, fnVars, codecVars, nsVars, confVars, nestVars, fireVars>>
outsideEvents   == <<resVars, svcVars, libVars, modVars, fnVars, codecVars, nsVars, confVars, nestVars, fireVars>>
outsideLibrary  == <<resVars, evVars, modVars, fnVars, codecVars, nsVars, confVars, nestVars, fireVars>>
outsideModule   == <<resVars, svcVars, evVars, libVars, fnVars, codecVars, nsVars, confVars, nestVars, fireVars>>
outsideFunction == <<resVars, svcVars, evVars, libVars, modVars, codecVars, nsVars, confVars, nestVars, fireVars>>
outsideCodec    == <<resVars, svcVars, evVars, libVars, modVars, fnVars, nsVars, confVars, nestVars, fireVars>>
outsideNamespace == <<svcVars, evVars, libVars, modVars, fnVars, codecVars, confVars, nestVars, fireVars>>
outsideConf == <<resVars, svcVars, evVars, libVars, modVars, fnVars, codecVars, nsVars, nestVars, fireVars>>
outsideNesting  == <<evVars, libVars, modVars, fnVars, codecVars, nsVars, confVars, fireVars>>
outsideFiring   == <<resVars, svcVars, libVars, modVars, fnVars, codecVars, nsVars, confVars, nestVars>>

----------------------------------------------------------------------------
(* Strings and the name codec (src/core/string.py)                         *)

\* The letters of file and class names; every other character (a digit, an
\* underscore, a dot) has no case
LowerLetters ==
    <<"a", "b", "c", "d", "e", "f", "g", "h", "i", "j", "k", "l", "m",
      "n", "o", "p", "q", "r", "s", "t", "u", "v", "w", "x", "y", "z">>
UpperLetters ==
    <<"A", "B", "C", "D", "E", "F", "G", "H", "I", "J", "K", "L", "M",
      "N", "O", "P", "Q", "R", "S", "T", "U", "V", "W", "X", "Y", "Z">>
Letters == 1 .. Len(LowerLetters)

IsLower(c) == \E i \in Letters : LowerLetters[i] = c
IsUpper(c) == \E i \in Letters : UpperLetters[i] = c
IsAlpha(c) == IsLower(c) \/ IsUpper(c)

\* str.lower() and str.upper() of one character
Lower(c) == IF IsUpper(c) THEN LowerLetters[CHOOSE i \in Letters : UpperLetters[i] = c]
            ELSE c
Upper(c) == IF IsLower(c) THEN UpperLetters[CHOOSE i \in Letters : LowerLetters[i] = c]
            ELSE c

RECURSIVE LowerStr(_)
LowerStr(s) == IF s = <<>> THEN <<>> ELSE <<Lower(Head(s))>> \o LowerStr(Tail(s))

\* re.sub(r'(?<!^)(?=[A-Z])', '_', name): an underscore before every capital
\* that is not the first character
RECURSIVE InsertUnderscores(_, _)
InsertUnderscores(s, i) ==
    IF i > Len(s) THEN <<>>
    ELSE (IF i > 1 /\ IsUpper(s[i]) THEN <<"_", s[i]>> ELSE <<s[i]>>)
         \o InsertUnderscores(s, i + 1)

camel_to_snake(name) == LowerStr(InsertUnderscores(name, 1))

\* str.title(): a letter is upper-cased when the character before it is not
\* a letter, lower-cased otherwise
RECURSIVE TitleFrom(_, _)
TitleFrom(s, i) ==
    IF i > Len(s) THEN <<>>
    ELSE <<IF i = 1 \/ ~IsAlpha(s[i - 1]) THEN Upper(s[i]) ELSE Lower(s[i])>>
         \o TitleFrom(s, i + 1)

Title(s) == TitleFrom(s, 1)

\* name.split('_')
RECURSIVE Split(_, _)
Split(s, cur) ==
    IF s = <<>> THEN <<cur>>
    ELSE IF Head(s) = "_" THEN <<cur>> \o Split(Tail(s), <<>>)
    ELSE Split(Tail(s), Append(cur, Head(s)))

RECURSIVE JoinTitled(_)
JoinTitled(parts) ==
    IF parts = <<>> THEN <<>> ELSE Title(Head(parts)) \o JoinTitled(Tail(parts))

\* snake_to_camel(name, capitalize=True)
snake_to_camel(name) == JoinTitled(Split(name, <<>>))

----------------------------------------------------------------------------
(* Paths. A path is a sequence of segments below core_path; a segment is a *)
(* string. f'{path}.{ext}' appends the extension to the last segment.      *)

core_path == <<>>

Join(path, seg) == Append(path, seg)                \* os.path.join

ExtPy   == <<".", "p", "y">>
ExtYml  == <<".", "y", "m", "l">>
ExtYaml == <<".", "y", "a", "m", "l">>
ExtJson == <<".", "j", "s", "o", "n">>
ExtTxt  == <<".", "t", "x", "t">>
ExtMd   == <<".", "m", "d">>

WithExt(path, ext) ==                               \* f'{path}.{ext}'
    IF path = <<>> THEN <<ext>>
    ELSE [path EXCEPT ![Len(path)] = path[Len(path)] \o ext]

Basename(path) == path[Len(path)]                   \* os.path.basename

\* os.path.splitext(...)[0] of a basename that carries one extension
RECURSIVE Stem(_)
Stem(seg) == IF seg = <<>> \/ Head(seg) = "." THEN <<>> ELSE <<Head(seg)>> \o Stem(Tail(seg))

\* os.path.splitext(...)[1] of a basename that carries at most one extension
RECURSIVE Suffix(_)
Suffix(seg) == IF seg = <<>> \/ Head(seg) = "." THEN seg ELSE Suffix(Tail(seg))

isdir(path)  == <<path, "dir">> \in fs
isfile(path) == \E e \in fs : e[1] = path /\ e[2] # "dir"
KindOf(path) == (CHOOSE e \in fs : e[1] = path)[2]


----------------------------------------------------------------------------
(* Values, outcomes and caches                                             *)

\* A Python value: k its kind, p the path it was made from, x its identity
\* (object number) or, for a plugin's value, the plugin that produced it.
Val(k, p, x) == [k |-> k, p |-> p, x |-> x]
None == Val("none", <<>>, 0)

\* The class object a code file defines when it is executed: its identity
\* is the loader that executed the file and the number of that execution
\* by the loader (from 0); each loader executes the file itself
NoObj == <<"none", 0>>
ClassObj(loader, path, n) == Val("class", path, <<loader, n>>)

NoErr == [type |-> "none", msg |-> "none", path |-> <<>>, name |-> <<>>]
Err(type, msg, path, name) == [type |-> type, msg |-> msg, path |-> path, name |-> name]

\* A dict as a set of <<key, value>> pairs with one pair per key
Has(d, key)      == \E e \in d : e[1] = key
Get(d, key)      == (CHOOSE e \in d : e[1] = key)[2]
Put(d, key, val) == {e \in d : e[1] # key} \cup {<<key, val>>}
Keys(d)          == {e[1] : e \in d}

\* The mutable state a call works on
Store == [ns |-> ns_cache, cls |-> class_cache, data |-> data_cache,
          mods |-> module_cache, cmods |-> common_cache, heap |-> heap]

Ev(op, p, x) == [op |-> op, p |-> p, x |-> x]

Returned(v, st, calls) == [st |-> "ok",    v |-> v,    e |-> NoErr, store |-> st, calls |-> calls]
Raised(e, st, calls)   == [st |-> "raise", v |-> None, e |-> e,     store |-> st, calls |-> calls]

----------------------------------------------------------------------------
(* Plugins (src/wl.py add_plugin and the plugin loop of _resolve)          *)

MaxPlugins == 2

\* What the match and load methods of each plugin class do
PluginClasses == 1 .. 6
PluginBehaviour(c) ==
    CASE c = 1 -> [match |-> "yes",   load |-> "val"]
      [] c = 2 -> [match |-> "no",    load |-> "val"]
      [] c = 3 -> [match |-> "raise", load |-> "val"]
      [] c = 4 -> [match |-> "yes",   load |-> "raise"]
      [] c = 5 -> [match |-> "yes",   load |-> "none"]
      [] OTHER -> [match |-> "yes",   load |-> "val"]

PluginValue(c, path) == Val("plugin", path, c)

\* Variant: a plugin whose load raises ends the resolution with None
PluginStepWL_LoadErrorEnds(c, path) ==
    LET b == PluginBehaviour(c) IN
    IF b.match \in {"raise", "no"}
    THEN [go |-> "next", v |-> None, calls |-> <<Ev("match", path, c)>>]
    ELSE [go |-> "return",
          v |-> IF b.load = "val" THEN PluginValue(c, path) ELSE None,
          calls |-> <<Ev("match", path, c), Ev("load", path, c)>>]

\* The result of one plugin inside the try block of the loop:
\* "return" (with a value), or "next" (no match, or an exception caught)
PluginStepWL(c, path) ==
    LET b == PluginBehaviour(c) IN
    IF b.match = "raise" THEN [go |-> "next", v |-> None, calls |-> <<Ev("match", path, c)>>]
    ELSE IF b.match = "no" THEN [go |-> "next", v |-> None, calls |-> <<Ev("match", path, c)>>]
    ELSE IF b.load = "raise"
         THEN [go |-> "next", v |-> None,
               calls |-> <<Ev("match", path, c), Ev("load", path, c)>>]
    ELSE [go |-> "return",
          v |-> IF b.load = "none" THEN None ELSE PluginValue(c, path),
          calls |-> <<Ev("match", path, c), Ev("load", path, c)>>]

\* Variant: the loop does not stop at the first plugin that returns, so the
\* last one decides
RECURSIVE PluginLoopWL_LastWins(_, _, _, _)
PluginLoopWL_LastWins(reg, path, i, calls) ==
    IF i > Len(reg) THEN [go |-> "next", v |-> None, calls |-> calls]
    ELSE LET r    == PluginStepWL(reg[i], path)
             rest == PluginLoopWL_LastWins(reg, path, i + 1, calls \o r.calls)
         IN
         IF r.go = "return" /\ rest.go # "return"
         THEN [go |-> "return", v |-> r.v, calls |-> rest.calls]
         ELSE rest

\* for plugin_name, plugin in self._plugins.items(): ... (src/wl.py:286-291)
RECURSIVE PluginLoopWL(_, _, _, _)
PluginLoopWL(reg, path, i, calls) ==
    IF i > Len(reg) THEN [go |-> "next", v |-> None, calls |-> calls]
    ELSE LET r == PluginStepWL(reg[i], path) IN
         IF r.go = "return"
         THEN [go |-> "return", v |-> r.v, calls |-> calls \o r.calls]
         ELSE PluginLoopWL(reg, path, i + 1, calls \o r.calls)

----------------------------------------------------------------------------
(* Code files (src/wl.py load_module, _get_class_name, _load_class)        *)

\* load_module(name, path): the file is executed unless _MODULE_CACHE has
\* it. Run in one piece, one call after the other, a loader executes a file
\* once, so the class it gets is the one of its execution 0.
load_module(st, path) ==
    IF path \in st.mods THEN [store |-> st, calls |-> <<>>]
    ELSE [store |-> [st EXCEPT !.mods = @ \cup {path}],
          calls |-> <<Ev("exec", path, 0)>>]

\* _get_class_name(path)
get_class_name(path) == snake_to_camel(Stem(Basename(path)))

\* The class object load_py_module of src/white_label.py gets from a code
\* file
ClassOf(path) == ClassObj("white_label", path, 0)

\* self.lib_name, and the text f'{self.lib_name}.Module' of the second error
lib_name    == <<"l", "i", "b">>
ModuleLabel == lib_name \o <<".", "M", "o", "d", "u", "l", "e">>

\* '.'.join(parts)
RECURSIVE JoinDots(_)
JoinDots(parts) ==
    IF parts = <<>> THEN <<>>
    ELSE IF Len(parts) = 1 THEN Head(parts)
    ELSE Head(parts) \o <<".">> \o JoinDots(Tail(parts))

\* Variant: the directory segments are converted like the file name
get_module_name_CamelDirs(abs_path) ==
    LET parts == SubSeq(abs_path, 1, Len(abs_path) - 1)
        name  == abs_path[Len(abs_path)]
    IN JoinDots(<<lib_name>> \o [i \in 1 .. Len(parts) |-> snake_to_camel(parts[i])]
                \o <<snake_to_camel(SubSeq(name, 1, Len(name) - 3))>>)

\* WL._get_module_name(abs_path) (wl.py:315-324): rel_path is the path below
\* core_path, name[:-3] drops the three characters of '.py'
get_module_name(abs_path) ==
    LET parts      == SubSeq(abs_path, 1, Len(abs_path) - 1)
        name       == abs_path[Len(abs_path)]
        class_name == snake_to_camel(SubSeq(name, 1, Len(name) - 3))
    IN JoinDots(<<lib_name>> \o parts \o <<class_name>>)

\* File._get_module_name(abs_path) (file.py:22-31): the code of
\* WL._get_module_name, with self.lib in the place of self
File_get_module_name(abs_path) == get_module_name(abs_path)

\* WL._load_class(abs_path) (src/wl.py:352-374)
WL_load_class(st, abs_path, calls) ==
    IF Has(st.cls, abs_path) THEN Returned(Get(st.cls, abs_path), st, calls)
    ELSE
      LET m      == load_module(st, abs_path)
          kind   == KindOf(abs_path)
          calls1 == calls \o m.calls \o <<Ev("getattr", abs_path, 0)>>
          calls2 == Append(calls1, Ev("stamp", abs_path, get_module_name(abs_path)))
      IN
      IF kind = "py_noattr"
      THEN Raised(Err("AttributeError", "defines no class", abs_path,
                      get_class_name(abs_path)), m.store, calls1)
      ELSE IF kind \in {"py_notmodule", "py_value"}
      THEN Raised(Err("AttributeError", "defines no lib.Module", abs_path, ModuleLabel),
                  m.store, calls1)
      ELSE IF kind = "py_service"
      \* cls() without the lib and module_name Service.__new__ requires
      THEN Raised(Err("TypeError", "missing arguments", <<>>, <<>>),
                  m.store, Append(calls2, Ev("new", abs_path, 0)))
      ELSE Returned(ClassObj("wl", abs_path, 0),
                    [m.store EXCEPT !.cls = Put(@, abs_path, ClassObj("wl", abs_path, 0))],
                    calls2)

----------------------------------------------------------------------------
(* Data files (src/wl.py _load_data and the extension loop of _resolve)    *)

\* Variant: a failed parse leaves an entry in the data cache
WL_load_data_CachesFailure(st, path, calls) ==
    IF Has(st.data, path) THEN Returned(Get(st.data, path), st, calls)
    ELSE
      LET calls1 == Append(calls, Ev("parse", path, 0))
          obj    == Val("data", path, st.heap + 1)
      IN
      IF KindOf(path) = "data_bad"
      THEN Raised(Err("ParseError", "parse failed", path, <<>>),
                  [st EXCEPT !.data = Put(@, path, obj), !.heap = @ + 1], calls1)
      ELSE IF KindOf(path) = "data_null"
      THEN Returned(None, st, calls1)
      ELSE Returned(obj, [st EXCEPT !.data = Put(@, path, obj), !.heap = @ + 1], calls1)

\* WL._load_data(path) (src/wl.py:378-392)
WL_load_data(st, path, calls) ==
    IF Has(st.data, path) THEN Returned(Get(st.data, path), st, calls)
    ELSE
      LET kind   == KindOf(path)
          calls1 == Append(calls, Ev("parse", path, 0))
          obj    == Val("data", path, st.heap + 1)
      IN
      IF kind = "data_bad"
      THEN Raised(Err("ParseError", "parse failed", path, <<>>), st, calls1)
      ELSE IF kind = "data_null"
      THEN Returned(None, st, calls1)
      ELSE Returned(obj, [st EXCEPT !.data = Put(@, path, obj), !.heap = @ + 1], calls1)

DataExts == <<ExtYml, ExtYaml, ExtJson>>

\* for ext in ('yml', 'yaml', 'json'): ... (src/wl.py:301-304)
RECURSIVE DataLoopWL(_, _, _, _, _)
DataLoopWL(st, path, i, result, calls) ==
    IF i > Len(DataExts) THEN Returned(result, st, calls)
    ELSE LET file_path == WithExt(path, DataExts[i]) IN
         IF isfile(file_path)
         THEN LET r == WL_load_data(st, file_path, calls) IN
              IF r.st = "raise" THEN r
              ELSE DataLoopWL(r.store, path, i + 1, r.v, r.calls)
         ELSE DataLoopWL(st, path, i + 1, result, calls)

----------------------------------------------------------------------------
(* The file loader (src/core/file.py)                                      *)

\* Common.load_module(name, path) (src/core/common.py:31-43)
Common_load_module(st, path) ==
    IF path \in st.cmods THEN [store |-> st, calls |-> <<>>]
    ELSE [store |-> [st EXCEPT !.cmods = @ \cup {path}],
          calls |-> <<Ev("exec", path, 0)>>]

\* File._load_class(abs_path) (file.py:59-79) for a file whose class is not a
\* service; a service class is constructed by the threads of NextSvc
File_load_class(st, abs_path, calls) ==
    IF Has(st.cls, abs_path) THEN Returned(Get(st.cls, abs_path), st, calls)
    ELSE
      LET m      == Common_load_module(st, abs_path)
          kind   == KindOf(abs_path)
          calls1 == calls \o m.calls \o <<Ev("getattr", abs_path, 0)>>
      IN
      IF kind = "py_noattr"
      THEN Raised(Err("AttributeError", "defines no class", abs_path,
                      get_class_name(abs_path)), m.store, calls1)
      ELSE IF kind \in {"py_notmodule", "py_value"}
      THEN Raised(Err("AttributeError", "defines no lib.Module", abs_path, ModuleLabel),
                  m.store, calls1)
      ELSE Returned(ClassObj("common", abs_path, 0),
                    [m.store EXCEPT !.cls = Put(@, abs_path,
                                                ClassObj("common", abs_path, 0))],
                    Append(calls1, Ev("stamp", abs_path, File_get_module_name(abs_path))))

\* File._load_data(path) (file.py:83-97): the code of WL._load_data
File_load_data(st, path, calls) == WL_load_data(st, path, calls)

\* File._load_text(path) (file.py:101-103): the text, never cached
File_load_text(st, path, calls) ==
    Returned(Val("text", path, 0), st, Append(calls, Ev("read", path, 0)))

\* The plugin loop of File.load (file.py:114-120): the loop of WL._resolve
\* with `result = plugin.load(...); break` in place of `return`
PluginLoopFile(reg, path) == PluginLoopWL(reg, path, 1, <<>>)

\* File(lib, path).load() (file.py:109-136)
File_load(st, reg, path) ==
    LET pl  == PluginLoopFile(reg, path)
        ext == Suffix(Basename(path))
    IN
    IF pl.v # None THEN Returned(pl.v, st, pl.calls)
    ELSE IF ext \in {ExtPy, ExtYml, ExtYaml, ExtJson, ExtTxt, ExtMd} /\ isfile(path)
    THEN IF ext = ExtPy THEN File_load_class(st, path, pl.calls)
         ELSE IF ext \in {ExtTxt, ExtMd} THEN File_load_text(st, path, pl.calls)
         ELSE File_load_data(st, path, pl.calls)
    ELSE Returned(None, st, pl.calls)

----------------------------------------------------------------------------
(* WL._resolve(name, path) (src/wl.py:268-311)                             *)

NamespaceBranchWL(st, path) ==
    IF Has(st.ns, path) THEN Returned(Get(st.ns, path), st, <<>>)
    ELSE LET obj == Val("ns", path, st.heap + 1) IN
         Returned(obj, [st EXCEPT !.ns = Put(@, path, obj), !.heap = @ + 1], <<>>)

FileBranchWL(st, path, calls) ==
    IF isfile(WithExt(path, ExtPy))
    THEN WL_load_class(st, WithExt(path, ExtPy), calls)
    ELSE DataLoopWL(st, path, 1, None, calls)

NotFoundWL(path) == Err("AttributeError", "does not exist", path, <<>>)

\* Variant: plugins are consulted before the directory test
WL_resolve_PluginsFirst(st, reg, name, base) ==
    LET path == Join(base, camel_to_snake(name))
        p    == PluginLoopWL(reg, path, 1, <<>>)
    IN
    IF p.go = "return" THEN Returned(p.v, st, p.calls)
    ELSE IF isdir(path) THEN NamespaceBranchWL(st, path)
    ELSE LET r == FileBranchWL(st, path, p.calls) IN
         IF r.st = "ok" /\ r.v = None
         THEN Raised(NotFoundWL(path), r.store, r.calls)
         ELSE r

\* Variant: the final check is missing and None is returned
WL_resolve_NoRaise(st, reg, name, base) ==
    LET path == Join(base, camel_to_snake(name)) IN
    IF isdir(path)
    THEN NamespaceBranchWL(st, path)
    ELSE LET p == PluginLoopWL(reg, path, 1, <<>>) IN
         IF p.go = "return" THEN Returned(p.v, st, p.calls)
         ELSE FileBranchWL(st, path, p.calls)

WL_resolve(st, reg, name, base) ==
    LET path == Join(base, camel_to_snake(name)) IN
    IF isdir(path)
    THEN NamespaceBranchWL(st, path)
    ELSE LET p == PluginLoopWL(reg, path, 1, <<>>) IN
         IF p.go = "return" THEN Returned(p.v, st, p.calls)
         ELSE LET r == FileBranchWL(st, path, p.calls) IN
              IF r.st = "ok" /\ r.v = None
              THEN Raised(NotFoundWL(path), r.store, r.calls)
              ELSE r

----------------------------------------------------------------------------
(* Namespace.__getattr__ (src/core/namespace.py) and Directory.__getattr__ *)
(* (src/core/directory.py)                                                 *)

InitPy == <<"_", "_", "i", "n", "i", "t", "_", "_", ".", "p", "y">>

\* hasattr(module, name) for the module of a package entry file
InitDefines(init_path, name) ==
    isfile(init_path) /\ KindOf(init_path) = "init_A" /\ name = <<"A">>

\* getattr(module, name)
InitMember(init_path) == Val("member", init_path, 0)

\* The result of _load_init: how it ended, the module it returned (found
\* FALSE for None), the package cache after it and the calls it made
InitLoaded(st, e, found, pkg, calls) ==
    [st |-> st, e |-> e, found |-> found, pkg |-> pkg, calls |-> calls]

\* self.__lib__ on the handle. WL._resolve sets __lib__ on a Namespace
\* (wl.py:279); FsNode.__init__ sets lib on a Directory and nothing sets
\* __lib__, so the lookup enters Directory.__getattr__ again, without end.
HasLib(kind) == kind = "namespace"

\* Namespace._load_init / Directory._load_init
load_init(kind, pkg, path) ==
    LET init_path == Join(path, InitPy) IN
    IF ~isfile(init_path) THEN InitLoaded("ok", NoErr, FALSE, pkg, <<>>)
    ELSE IF ~HasLib(kind)
    THEN InitLoaded("raise", Err("RecursionError", "__lib__", init_path, <<>>),
                    FALSE, pkg, <<>>)
    ELSE IF Has(pkg, init_path)
    THEN InitLoaded("ok", NoErr, TRUE, pkg, <<>>)
    ELSE IF kind = "namespace"
    THEN \* load_module is not a name of namespace.py
         InitLoaded("raise", Err("NameError", "load_module", init_path, <<>>),
                    FALSE, pkg, <<>>)
    ELSE InitLoaded("ok", NoErr, TRUE, Put(pkg, init_path, init_path),
                    <<Ev("exec", init_path, 0)>>)

\* Namespace.__getattr__ / Directory.__getattr__: the outcome, the package
\* cache after it and whether lib._resolve was called
ns_getattr(kind, st, reg, pkg, path, name) ==
    LET m == load_init(kind, pkg, path) IN
    IF m.st = "raise"
    THEN [r |-> Raised(m.e, st, m.calls), pkg |-> m.pkg, resolved |-> FALSE]
    ELSE IF m.found /\ InitDefines(Join(path, InitPy), name)
    THEN [r |-> Returned(InitMember(Join(path, InitPy)), st, m.calls),
          pkg |-> m.pkg, resolved |-> FALSE]
    ELSE IF ~HasLib(kind)
    THEN [r |-> Raised(Err("RecursionError", "__lib__", path, <<>>), st, m.calls),
          pkg |-> m.pkg, resolved |-> FALSE]
    ELSE LET r == WL_resolve(st, reg, name, path) IN
         [r |-> [r EXCEPT !.calls = m.calls \o @], pkg |-> m.pkg, resolved |-> TRUE]

----------------------------------------------------------------------------
(* Singleton services (src/core/service.py) constructed directly,          *)
(* S(lib, module_name), or by File._load_class (src/core/file.py), by      *)
(* several threads. Each action is one statement of one thread.            *)

NumThreads  == 2
\* The calls of a run: of one whose callers take turns, and of one whose
\* threads are inside their calls at the same time
MaxCalls    == 3
RaceCalls   == 2
MaxFailures == 1

Threads == 1 .. NumThreads

\* The code files of the service classes; a service class is named by its file
SvcFiles == {WithExt(<<<<"a">>>>, ExtPy), WithExt(<<<<"a", "_", "b">>>>, ExtPy)}
SvcTree  == {<<f, "py_service">> : f \in SvcFiles}

NoInst == 0
NoCallSvc == [cls |-> <<>>, route |-> "none", loader |-> "none", inst |-> NoInst,
              mod |-> NoObj, klass |-> NoObj, calls |-> <<>>,
              after_failure |-> FALSE, ready0 |-> {}, calls0 |-> 0]
NoRet == [st |-> "none", v |-> None, e |-> NoErr, calls |-> <<>>]

\* The two loaders: Common.load_module of core/common.py, which File uses,
\* and load_module of wl.py, which WL uses; each has its own _MODULE_CACHE.
\* A caller of a constructor may also have executed the file itself ("ext").
Loaders   == {"common", "wl"}
Executors == Loaders \cup {"ext"}

\* The executions of one file by a caller itself
MaxExt == 1

\* No statement creates lib._services: WL.initialize creates the caches
\* only (wl.py:418-422), so the registry is whatever the name `_services`
\* resolves to under the core directory (wl.py:253-261)
ServicesName == <<"_", "s", "e", "r", "v", "i", "c", "e", "s">>
RegistryFile == WithExt(Join(core_path, ServicesName), ExtJson)
RegistryTree == {<<RegistryFile, "data_ok">>}
WithOrWithoutRegistry(tree) == {tree, tree \cup RegistryTree}

\* What else the name may resolve to: a data file that holds a list (kind
\* "data_list": parsed data that is no mapping), or a directory, empty or
\* with a file for the name get
GetName      == <<"g", "e", "t">>
RegistryDir  == Join(core_path, ServicesName)
RegistryForms ==
    {{}, RegistryTree,
     {<<RegistryFile, "data_list">>},
     {<<RegistryDir, "dir">>},
     {<<RegistryDir, "dir">>, <<WithExt(Join(RegistryDir, GetName), ExtPy), "py_module">>},
     {<<RegistryDir, "dir">>, <<WithExt(Join(RegistryDir, GetName), ExtJson), "data_ok">>}}
WithAnyRegistry(tree) == {tree \cup r : r \in RegistryForms}

InitServices ==
    /\ services = {}
    /\ svc_lock = 0
    /\ instance_counter = 0
    /\ objs = <<>>
    /\ init_calls  = [c \in SvcFiles |-> 0]
    /\ init_ok     = [c \in SvcFiles |-> 0]
    /\ init_failed = [c \in SvcFiles |-> 0]
    /\ started = 0
    /\ pc   = [t \in Threads |-> "idle"]
    /\ call = [t \in Threads |-> NoCallSvc]
    /\ ret  = [t \in Threads |-> NoRet]
    /\ execs = [l \in Executors |-> [c \in SvcFiles |-> 0]]
    /\ mod_held = {}

Idle(t) == pc[t] \in {"idle", "done"}

Goto(t, label) == pc' = [pc EXCEPT ![t] = label]

\* The instances whose initialize() has returned
ReadyInstances == {i \in 1 .. Len(objs) : objs[i].ready}

\* The class objects of a code file that exist: one for each execution of
\* the file, by a loader or by a caller
HeldClasses(cls) ==
    UNION {{<<l, n>> : n \in 0 .. execs[l][cls] - 1} : l \in Executors}

\* How the caller of S(lib, module_name) comes by the class S: it holds a
\* class object an execution has defined, it gets the module now from
\* Common.load_module or from load_module of wl.py, or it has executed the
\* file itself, which defines a class object of its own. File._load_class
\* and WL._load_class get the module from their loader.
Way(loader, klass) == [loader |-> loader, klass |-> klass]
Ways(cls, route) ==
    IF route = "ctor"
    THEN {Way("held", k) : k \in HeldClasses(cls)}
           \cup {Way(l, NoObj) : l \in Loaders}
           \cup {Way("ext", <<"ext", n>>) :
                   n \in {m \in {execs["ext"][cls]} : m < MaxExt}}
    ELSE {Way(IF route = "wl" THEN "wl" ELSE "common", NoObj)}

\* The record of a call that begins
NewCall(cls, route, way, after_failure) ==
    [cls |-> cls, route |-> route, loader |-> way.loader, inst |-> NoInst,
     mod |-> NoObj, klass |-> way.klass,
     calls |-> IF way.loader = "ext" THEN <<Ev("exec", cls, 0)>> ELSE <<>>,
     after_failure |-> after_failure,
     ready0 |-> ReadyInstances,
     calls0 |-> init_calls[cls]]

FirstLabel(route, way) ==
    IF route = "ctor" THEN (IF way.klass = NoObj THEN "mod_test" ELSE "new_lock")
    ELSE IF route = "wl" THEN "wl_check" ELSE "lc_check"

\* A call begins on thread t
Begin(t, cls, route, after_failure) ==
    \E way \in Ways(cls, route) :
        /\ call' = [call EXCEPT ![t] = NewCall(cls, route, way, after_failure)]
        /\ execs' = IF way.loader = "ext"
                    THEN [execs EXCEPT !["ext"][cls] = @ + 1] ELSE execs
        /\ ret' = [ret EXCEPT ![t] = NoRet]
        /\ Goto(t, FirstLabel(route, way))

\* Thread t begins S(lib, module_name) (route "ctor"),
\* File(lib, path).load() of the service's code file (route "resolve") or
\* WL._load_class of the service's code file (route "wl")
Start(t, cls, route) ==
    /\ Idle(t)
    /\ started < MaxCalls
    /\ started' = started + 1
    /\ Begin(t, cls, route, /\ init_failed[cls] > 0
                            /\ init_ok[cls] = 0
                            /\ \A u \in Threads : Idle(u))
    /\ UNCHANGED <<services, svc_lock, instance_counter, objs, init_calls, init_ok,
                   init_failed, mod_held>>
    /\ UNCHANGED <<resVars, outsideServices>>

\* File._load_class: if abs_path not in self.lib._class_cache (file.py:60)
LcCheck(t) ==
    /\ pc[t] = "lc_check"
    /\ Goto(t, IF Has(class_cache, call[t].cls) THEN "cache_return" ELSE "mod_test")
    /\ UNCHANGED <<services, svc_lock, instance_counter, objs, init_calls, init_ok,
                   init_failed, started, call, ret, execs, mod_held>>
    /\ UNCHANGED <<resVars, outsideServices>>

\* WL._load_class: if abs_path not in self._class_cache (wl.py:353)
WlCheck(t) ==
    /\ pc[t] = "wl_check"
    /\ Goto(t, IF Has(class_cache, call[t].cls) THEN "cache_return" ELSE "mod_test")
    /\ UNCHANGED <<services, svc_lock, instance_counter, objs, init_calls, init_ok,
                   init_failed, started, call, ret, execs, mod_held>>
    /\ UNCHANGED <<resVars, outsideServices>>

\* The _MODULE_CACHE the call goes through: the one of core/common.py for
\* File, the one of wl.py for WL
Loader(t) == call[t].loader
Loaded(t) == IF Loader(t) = "wl" THEN module_cache ELSE common_cache

\* load_module: if abspath not in _MODULE_CACHE (common.py:34, wl.py:213)
ModTest(t) ==
    /\ pc[t] = "mod_test"
    /\ Goto(t, IF call[t].cls \in Loaded(t) THEN "mod_return" ELSE "mod_exec")
    /\ UNCHANGED <<services, svc_lock, instance_counter, objs, init_calls, init_ok,
                   init_failed, started, call, ret, execs, mod_held>>
    /\ UNCHANGED <<resVars, outsideServices>>

\* spec_from_file_location, module_from_spec, exec_module: the file is
\* executed and defines a new class object (common.py:35-40, wl.py:214-219)
ModExec(t) ==
    LET path == call[t].cls IN
    /\ pc[t] = "mod_exec"
    /\ execs' = [execs EXCEPT ![Loader(t)][path] = @ + 1]
    /\ call' = [call EXCEPT ![t].mod = <<Loader(t), execs[Loader(t)][path]>>,
                            ![t].calls = Append(@, Ev("exec", path, 0))]
    /\ Goto(t, "mod_store")
    /\ UNCHANGED <<services, svc_lock, instance_counter, objs, init_calls, init_ok,
                   init_failed, started, ret, mod_held>>
    /\ UNCHANGED <<resVars, outsideServices>>

\* _MODULE_CACHE[abspath] = module (common.py:41, wl.py:220)
ModStore(t) ==
    LET path == call[t].cls IN
    /\ pc[t] = "mod_store"
    /\ mod_held' = Put(mod_held, <<Loader(t), path>>, call[t].mod)
    /\ IF Loader(t) = "wl"
       THEN module_cache' = module_cache \cup {path} /\ UNCHANGED common_cache
       ELSE common_cache' = common_cache \cup {path} /\ UNCHANGED module_cache
    /\ Goto(t, "mod_return")
    /\ UNCHANGED <<services, svc_lock, instance_counter, objs, init_calls, init_ok,
                   init_failed, started, call, ret, execs>>
    /\ UNCHANGED <<fs, plugins, ns_cache, class_cache, data_cache, heap, hist, last>>
    /\ UNCHANGED outsideServices

\* return _MODULE_CACHE[abspath] (common.py:43, wl.py:222)
ModReturn(t) ==
    /\ pc[t] = "mod_return"
    /\ call' = [call EXCEPT ![t].mod = Get(mod_held, <<Loader(t), call[t].cls>>)]
    /\ Goto(t, IF call[t].route = "ctor" THEN "ctor_class"
               ELSE IF Loader(t) = "wl" THEN "wl_class" ELSE "lc_class")
    /\ UNCHANGED <<services, svc_lock, instance_counter, objs, init_calls, init_ok,
                   init_failed, started, ret, execs, mod_held>>
    /\ UNCHANGED <<resVars, outsideServices>>

\* The caller of S(lib, module_name) takes the class from the module its
\* loader returned; Service.__new__ receives it as cls (service.py:50)
CtorClass(t) ==
    /\ pc[t] = "ctor_class"
    /\ call' = [call EXCEPT ![t].klass = call[t].mod,
                            ![t].calls = Append(@, Ev("getattr", call[t].cls, 0))]
    /\ Goto(t, "new_lock")
    /\ UNCHANGED <<services, svc_lock, instance_counter, objs, init_calls, init_ok,
                   init_failed, started, ret, execs, mod_held>>
    /\ UNCHANGED <<resVars, outsideServices>>

\* File._load_class: cls = getattr(module, class_name, None), the two
\* checks and, for a service class, the call cls(self.lib, name)
\* (file.py:65-73)
LcClass(t) ==
    LET path   == call[t].cls
        kind   == KindOf(path)
        calls1 == Append(call[t].calls, Ev("getattr", path, 0))
    IN
    /\ pc[t] = "lc_class"
    /\ IF kind = "py_noattr"
       THEN /\ ret' = [ret EXCEPT ![t] =
                         [st |-> "raise", v |-> None,
                          e |-> Err("AttributeError", "defines no class", path,
                                    get_class_name(path)),
                          calls |-> calls1]]
            /\ Goto(t, "done")
       ELSE IF kind \in {"py_notmodule", "py_value"}
       THEN /\ ret' = [ret EXCEPT ![t] =
                         [st |-> "raise", v |-> None,
                          e |-> Err("AttributeError", "defines no lib.Module", path,
                                    ModuleLabel),
                          calls |-> calls1]]
            /\ Goto(t, "done")
       ELSE /\ ret' = ret
            /\ Goto(t, IF kind = "py_service" THEN "new_lock" ELSE "lc_stamp")
    /\ call' = [call EXCEPT ![t].klass = call[t].mod, ![t].calls = calls1]
    /\ UNCHANGED <<services, svc_lock, instance_counter, objs, init_calls, init_ok,
                   init_failed, started, execs, mod_held>>
    /\ UNCHANGED <<resVars, outsideServices>>

\* WL._load_class: cls = getattr(module, class_name, None), the two checks,
\* the three setattr on the class and, for a service class, cls(), which
\* raises before Service.__new__ takes the lock (wl.py:358-370)
WlClass(t) ==
    LET path   == call[t].cls
        kind   == KindOf(path)
        calls1 == Append(call[t].calls, Ev("getattr", path, 0))
        calls2 == Append(calls1, Ev("stamp", path, get_module_name(path)))
        calls3 == Append(calls2, Ev("new", path, 0))
    IN
    /\ pc[t] = "wl_class"
    /\ IF kind = "py_noattr"
       THEN /\ ret' = [ret EXCEPT ![t] =
                         [st |-> "raise", v |-> None,
                          e |-> Err("AttributeError", "defines no class", path,
                                    get_class_name(path)),
                          calls |-> calls1]]
            /\ call' = [call EXCEPT ![t].klass = call[t].mod, ![t].calls = calls1]
            /\ Goto(t, "done")
       ELSE IF kind \in {"py_notmodule", "py_value"}
       THEN /\ ret' = [ret EXCEPT ![t] =
                         [st |-> "raise", v |-> None,
                          e |-> Err("AttributeError", "defines no lib.Module", path,
                                    ModuleLabel),
                          calls |-> calls1]]
            /\ call' = [call EXCEPT ![t].klass = call[t].mod, ![t].calls = calls1]
            /\ Goto(t, "done")
       ELSE IF kind = "py_service"
       THEN /\ ret' = [ret EXCEPT ![t] =
                         [st |-> "raise", v |-> None,
                          e |-> Err("TypeError", "missing arguments", <<>>, <<>>),
                          calls |-> calls3]]
            /\ call' = [call EXCEPT ![t].klass = call[t].mod, ![t].calls = calls3]
            /\ Goto(t, "done")
       ELSE /\ ret' = ret
            /\ call' = [call EXCEPT ![t].klass = call[t].mod, ![t].calls = calls2]
            /\ Goto(t, "cache_store")
    /\ UNCHANGED <<services, svc_lock, instance_counter, objs, init_calls, init_ok,
                   init_failed, started, execs, mod_held>>
    /\ UNCHANGED <<resVars, outsideServices>>

\* Service.__new__: with cls._lock (service.py:51)
NewLock(t) ==
    /\ pc[t] = "new_lock"
    /\ svc_lock = 0
    /\ svc_lock' = t
    /\ Goto(t, "new_get")
    /\ UNCHANGED <<services, instance_counter, objs, init_calls, init_ok,
                   init_failed, started, call, ret, execs, mod_held>>
    /\ UNCHANGED <<resVars, outsideServices>>

\* The registry key of the call: the class object the constructor is
\* called on
ClassKey(t) == <<call[t].cls, call[t].klass>>

\* lib._services, read through WL.__getattr__ and WL._resolve
\* (wl.py:253-261)
LibServices == WL_resolve(Store, plugins, ServicesName, core_path)

\* Parsed data that is a mapping
IsMapping(v) == v.k = "data" /\ KindOf(v.p) = "data_ok"

\* lib._services.get (service.py:52): the method of a mapping (method
\* TRUE); on a Namespace handle, Namespace.__getattr__('get')
\* (namespace.py:15-20), which returns whatever the name get resolves to
\* below the directory and stores nothing in _pkg_cache; a list, a class or
\* another value has no attribute get
RegistryGet(r) ==
    IF r.st = "raise" THEN [r |-> r, method |-> FALSE]
    ELSE IF IsMapping(r.v) THEN [r |-> r, method |-> TRUE]
    ELSE IF r.v.k = "ns"
    THEN [r |-> ns_getattr("namespace", r.store, plugins, pkg_cache, r.v.p, GetName).r,
          method |-> FALSE]
    ELSE [r |-> Raised(Err("AttributeError", "no attribute get", r.v.p, GetName),
                       r.store, r.calls),
          method |-> FALSE]

\* inst = lib._services.get(cls, None) (service.py:52-53). The method of a
\* mapping looks the class up. A class found under the name get is called
\* with (cls, None): Module.__new__ makes an object of it (module.py:39-43),
\* which is not None, so __new__ returns it. Any other value found is not
\* callable. An error leaves the with block, which releases the lock.
NewGet(t) ==
    /\ pc[t] = "new_get"
    /\ \E g \in {RegistryGet(LibServices)} :
       /\ ns_cache' = g.r.store.ns
       /\ class_cache' = g.r.store.cls
       /\ data_cache' = g.r.store.data
       /\ module_cache' = g.r.store.mods
       /\ common_cache' = g.r.store.cmods
       /\ heap' = g.r.store.heap
       /\ IF g.r.st = "raise"
          THEN /\ svc_lock' = 0
               /\ ret' = [ret EXCEPT ![t] = [st |-> "raise", v |-> None, e |-> g.r.e,
                                             calls |-> call[t].calls]]
               /\ call' = call
               /\ Goto(t, "done")
               /\ UNCHANGED <<instance_counter, objs>>
          ELSE IF g.method
          THEN /\ IF Has(services, ClassKey(t))
                  THEN /\ call' = [call EXCEPT ![t].inst = Get(services, ClassKey(t))]
                       /\ Goto(t, "new_unlock")
                  ELSE /\ call' = call
                       /\ Goto(t, "new_create")
               /\ UNCHANGED <<svc_lock, ret, instance_counter, objs>>
          ELSE IF g.r.v.k = "class"
          THEN /\ instance_counter' = instance_counter + 1
               /\ objs' = Append(objs, [cls |-> g.r.v.p, klass |-> g.r.v.x,
                                        has_flag |-> FALSE, initialized |-> FALSE,
                                        stamped |-> TRUE, ready |-> FALSE])
               /\ call' = [call EXCEPT ![t].inst = instance_counter + 1]
               /\ Goto(t, "new_unlock")
               /\ UNCHANGED <<svc_lock, ret>>
          ELSE /\ svc_lock' = 0
               /\ ret' = [ret EXCEPT ![t] =
                            [st |-> "raise", v |-> None,
                             e |-> Err("TypeError", "not callable", g.r.v.p, GetName),
                             calls |-> call[t].calls]]
               /\ call' = call
               /\ Goto(t, "done")
               /\ UNCHANGED <<instance_counter, objs>>
    /\ UNCHANGED <<services, init_calls, init_ok, init_failed, started, execs,
                   mod_held>>
    /\ UNCHANGED <<fs, plugins, hist, last>>
    /\ UNCHANGED outsideServices

\* Variant: Service.__new__ does not call Common.set_lib; the instance is
\* stamped only by File._load_class after the constructor call
NewCreate_StampsLater(t) ==
    LET id == instance_counter + 1 IN
    /\ pc[t] = "new_create"
    /\ instance_counter' = id
    /\ objs' = Append(objs, [cls |-> call[t].cls, klass |-> call[t].klass,
                             has_flag |-> FALSE, initialized |-> FALSE,
                             stamped |-> FALSE, ready |-> FALSE])
    /\ services' = Put(services, ClassKey(t), id)
    /\ call' = [call EXCEPT ![t].inst = id,
                            ![t].calls = Append(@, Ev("new", call[t].cls, 0))]
    /\ Goto(t, "new_unlock")
    /\ UNCHANGED <<svc_lock, init_calls, init_ok, init_failed, started, ret, execs,
                   mod_held>>
    /\ UNCHANGED <<resVars, outsideServices>>

\* inst = super().__new__(cls); lib._services[cls] = inst;
\* Common.set_lib(inst, lib, module_name) (service.py:54-56, module.py:39-43)
NewCreate(t) ==
    LET id == instance_counter + 1 IN
    /\ pc[t] = "new_create"
    /\ instance_counter' = id
    /\ objs' = Append(objs, [cls |-> call[t].cls, klass |-> call[t].klass,
                             has_flag |-> FALSE, initialized |-> FALSE,
                             stamped |-> TRUE, ready |-> FALSE])
    /\ services' = Put(services, ClassKey(t), id)
    /\ call' = [call EXCEPT ![t].inst = id,
                            ![t].calls = Append(@, Ev("new", call[t].cls, 0))]
    /\ Goto(t, "new_unlock")
    /\ UNCHANGED <<svc_lock, init_calls, init_ok, init_failed, started, ret, execs,
                   mod_held>>
    /\ UNCHANGED <<resVars, outsideServices>>

\* isinstance(inst, cls): the call of a class runs __init__ only on an
\* instance of the class
IsInstance(t) ==
    objs[call[t].inst].cls = call[t].cls /\ objs[call[t].inst].klass = call[t].klass

\* Variant: __init__ runs inside the with block, the lock is still held when
\* initialize() is called
NewUnlock_KeepsLock(t) ==
    /\ pc[t] = "new_unlock"
    /\ svc_lock' = svc_lock
    /\ Goto(t, IF IsInstance(t) THEN "init_has" ELSE "ctor_return")
    /\ UNCHANGED <<services, instance_counter, objs, init_calls, init_ok,
                   init_failed, started, call, ret, execs, mod_held>>
    /\ UNCHANGED <<resVars, outsideServices>>

\* return inst, leaving the with block (service.py:60); __init__ follows
\* when inst is an instance of cls
NewUnlock(t) ==
    /\ pc[t] = "new_unlock"
    /\ svc_lock' = 0
    /\ Goto(t, IF IsInstance(t) THEN "init_has" ELSE "ctor_return")
    /\ UNCHANGED <<services, instance_counter, objs, init_calls, init_ok,
                   init_failed, started, call, ret, execs, mod_held>>
    /\ UNCHANGED <<resVars, outsideServices>>

\* Service.__init__: if '_initialized' not in self.__dict__ (service.py:65)
InitHas(t) ==
    /\ pc[t] = "init_has"
    /\ Goto(t, IF objs[call[t].inst].has_flag THEN "init_read" ELSE "init_clear")
    /\ UNCHANGED <<services, svc_lock, instance_counter, objs, init_calls, init_ok,
                   init_failed, started, call, ret, execs, mod_held>>
    /\ UNCHANGED <<resVars, outsideServices>>

\* self.__dict__['_initialized'] = False (service.py:66)
InitClear(t) ==
    /\ pc[t] = "init_clear"
    /\ objs' = [objs EXCEPT ![call[t].inst].has_flag = TRUE,
                            ![call[t].inst].initialized = FALSE]
    /\ Goto(t, "init_read")
    /\ UNCHANGED <<services, svc_lock, instance_counter, init_calls, init_ok,
                   init_failed, started, call, ret, execs, mod_held>>
    /\ UNCHANGED <<resVars, outsideServices>>

\* if not self.__dict__['_initialized'] (service.py:68)
InitRead(t) ==
    /\ pc[t] = "init_read"
    /\ Goto(t, IF objs[call[t].inst].initialized THEN "ctor_return" ELSE "init_set")
    /\ UNCHANGED <<services, svc_lock, instance_counter, objs, init_calls, init_ok,
                   init_failed, started, call, ret, execs, mod_held>>
    /\ UNCHANGED <<resVars, outsideServices>>

\* self.__dict__['_initialized'] = True (service.py:69)
InitSet(t) ==
    /\ pc[t] = "init_set"
    /\ objs' = [objs EXCEPT ![call[t].inst].has_flag = TRUE,
                            ![call[t].inst].initialized = TRUE]
    /\ Goto(t, "init_call")
    /\ UNCHANGED <<services, svc_lock, instance_counter, init_calls, init_ok,
                   init_failed, started, call, ret, execs, mod_held>>
    /\ UNCHANGED <<resVars, outsideServices>>

\* self.initialize() is entered (service.py:70)
InitCall(t) ==
    /\ pc[t] = "init_call"
    /\ init_calls' = [init_calls EXCEPT ![call[t].cls] = @ + 1]
    /\ call' = [call EXCEPT ![t].calls =
                  Append(@, Ev("initialize", call[t].cls, call[t].inst))]
    /\ Goto(t, "in_initialize")
    /\ UNCHANGED <<services, svc_lock, instance_counter, objs, init_ok, init_failed,
                   started, ret, execs, mod_held>>
    /\ UNCHANGED <<resVars, outsideServices>>

\* initialize() returns
InitReturns(t) ==
    /\ pc[t] = "in_initialize"
    /\ init_ok' = [init_ok EXCEPT ![call[t].cls] = @ + 1]
    /\ objs' = [objs EXCEPT ![call[t].inst].ready = TRUE]
    /\ Goto(t, "ctor_return")
    /\ UNCHANGED <<services, svc_lock, instance_counter, init_calls, init_failed,
                   started, call, ret, execs, mod_held>>
    /\ UNCHANGED <<resVars, outsideServices>>

\* initialize() raises: the error leaves __init__, the constructor call
\* and, on the "resolve" route, File._load_class
InitRaises(t) ==
    /\ pc[t] = "in_initialize"
    /\ init_failed[call[t].cls] < MaxFailures
    /\ init_failed' = [init_failed EXCEPT ![call[t].cls] = @ + 1]
    /\ ret' = [ret EXCEPT ![t] =
                 [st |-> "raise", v |-> None,
                  e |-> Err("InitError", "initialize raised", call[t].cls, <<>>),
                  calls |-> call[t].calls]]
    /\ Goto(t, "done")
    /\ UNCHANGED <<services, svc_lock, instance_counter, objs, init_calls, init_ok,
                   started, call, execs, mod_held>>
    /\ UNCHANGED <<resVars, outsideServices>>

InstVal(t) == Val("inst", objs[call[t].inst].cls, call[t].inst)

\* The constructor call returns the instance: to the caller, or to
\* File._load_class (file.py:73)
CtorReturn(t) ==
    /\ pc[t] = "ctor_return"
    /\ IF call[t].route = "ctor"
       THEN /\ ret' = [ret EXCEPT ![t] = [st |-> "ok", v |-> InstVal(t), e |-> NoErr,
                                          calls |-> call[t].calls]]
            /\ Goto(t, "done")
       ELSE /\ ret' = ret
            /\ Goto(t, "lc_stamp")
    /\ UNCHANGED <<services, svc_lock, instance_counter, objs, init_calls, init_ok,
                   init_failed, started, call, execs, mod_held>>
    /\ UNCHANGED <<resVars, outsideServices>>

\* What the call is about to cache: the instance of a service class, the
\* class object otherwise
Loaded_cls(t) ==
    IF call[t].inst # NoInst THEN InstVal(t)
    ELSE ClassObj(call[t].klass[1], call[t].cls, call[t].klass[2])

\* Common.set_lib(cls, self.lib, name) (file.py:75)
LcStamp(t) ==
    LET path == call[t].cls IN
    /\ pc[t] = "lc_stamp"
    /\ IF call[t].inst # NoInst
       THEN objs' = [objs EXCEPT ![call[t].inst].stamped = TRUE]
       ELSE objs' = objs
    /\ call' = [call EXCEPT ![t].calls =
                  Append(@, Ev("stamp", path, File_get_module_name(path)))]
    /\ Goto(t, "cache_store")
    /\ UNCHANGED <<services, svc_lock, instance_counter, init_calls, init_ok,
                   init_failed, started, ret, execs, mod_held>>
    /\ UNCHANGED <<resVars, outsideServices>>

\* _class_cache[abs_path] = cls (file.py:77, wl.py:372)
CacheStore(t) ==
    /\ pc[t] = "cache_store"
    /\ class_cache' = Put(class_cache, call[t].cls, Loaded_cls(t))
    /\ Goto(t, "cache_return")
    /\ UNCHANGED <<services, svc_lock, instance_counter, objs, init_calls, init_ok,
                   init_failed, started, call, ret, execs, mod_held>>
    /\ UNCHANGED <<fs, plugins, ns_cache, data_cache, module_cache, common_cache,
                   heap, hist, last>>
    /\ UNCHANGED outsideServices

\* return _class_cache[abs_path] (file.py:79, wl.py:374)
CacheReturn(t) ==
    /\ pc[t] = "cache_return"
    /\ ret' = [ret EXCEPT ![t] = [st |-> "ok", v |-> Get(class_cache, call[t].cls),
                                  e |-> NoErr, calls |-> call[t].calls]]
    /\ Goto(t, "done")
    /\ UNCHANGED <<services, svc_lock, instance_counter, objs, init_calls, init_ok,
                   init_failed, started, call, execs, mod_held>>
    /\ UNCHANGED <<resVars, outsideServices>>

\* The steps of File._load_class and WL._load_class around the constructor
LoadStep(t) ==
    \/ LcCheck(t)
    \/ WlCheck(t)
    \/ ModTest(t)
    \/ ModExec(t)
    \/ ModStore(t)
    \/ ModReturn(t)
    \/ CtorClass(t)
    \/ LcClass(t)
    \/ WlClass(t)
    \/ LcStamp(t)
    \/ CacheStore(t)
    \/ CacheReturn(t)

\* The steps of Service.__new__ and Service.__init__ up to initialize()
ConstructStep(t) ==
    \/ NewLock(t)
    \/ NewGet(t)
    \/ NewCreate(t)
    \/ NewUnlock(t)
    \/ InitHas(t)
    \/ InitClear(t)
    \/ InitRead(t)
    \/ InitSet(t)
    \/ InitCall(t)

\* The threads are numbered in the order of their first call
InOrder(t) == \A u \in Threads : u < t => pc[u] # "idle"

NextSvc ==
    \E t \in Threads :
        \/ \E cls \in SvcFiles, route \in {"ctor", "resolve", "wl"} :
              InOrder(t) /\ started < RaceCalls /\ Start(t, cls, route)
        \/ LoadStep(t)
        \/ ConstructStep(t)
        \/ InitReturns(t)
        \/ InitRaises(t)
        \/ CtorReturn(t)

----------------------------------------------------------------------------
(* Services whose initialize() calls for another service: the constructor  *)
(* B(lib, name), File(lib, path).load() or lib.B, run by the same thread   *)
(* while the outer initialize() waits                                      *)

NestCalls == 1

\* The depth initialize() calls can nest to: a call runs initialize() on a
\* class object at most once, and a file has one class object for each
\* time a loader or a caller has executed it
MaxNest   == 2 * (2 * NestCalls + MaxExt) + 1

\* What the initialize() of a service class does
NoPlan == [route |-> "none", target |-> <<>>]
SvcA == WithExt(<<<<"a">>>>, ExtPy)
OtherService(c) == CHOOSE d \in SvcFiles : d # c
CallFor(c, r) == [route |-> r, target |-> OtherService(c)]

\* The first service calls for the second, through the constructor, File
\* or the library; the second calls for nothing, or for the first in the
\* same way
AllPlans ==
    {[c \in SvcFiles |-> IF c = SvcA THEN CallFor(c, r)
                         ELSE IF back THEN CallFor(c, r) ELSE NoPlan] :
       r \in {"ctor", "resolve", "wl"}, back \in BOOLEAN}

\* A call begun by a caller that is inside no other call; the callers are
\* numbered in the order of their first call
StartOuter(t, cls, route) ==
    /\ stack[t] = <<>>
    /\ started < NestCalls
    /\ \A u \in Threads : u < t => pc[u] # "idle"
    /\ Start(t, cls, route)

\* initialize() of the service calls for the service of its plan: the
\* thread suspends the outer call and begins the nested one
InitNested(t) ==
    LET plan == init_plan[call[t].cls]
        cls  == plan.target
    IN
    /\ pc[t] = "in_initialize"
    /\ plan.route # "none"
    /\ <<t, call[t].inst>> \notin nested_made
    /\ Len(stack[t]) < MaxNest
    /\ stack' = [stack EXCEPT ![t] = <<call[t]>> \o @]
    /\ nested_made' = nested_made \cup {<<t, call[t].inst>>}
    /\ Begin(t, cls, plan.route, FALSE)
    /\ UNCHANGED <<mod_held, services, svc_lock, instance_counter, objs,
                   init_calls, init_ok,
                   init_failed, started, init_plan>>
    /\ UNCHANGED <<resVars, outsideNesting>>

\* The nested call returns into the outer initialize(), or its error leaves
\* the outer initialize(), __init__ and the outer call
NestedReturn(t) ==
    LET outer == Head(stack[t]) IN
    /\ pc[t] = "done"
    /\ stack[t] # <<>>
    /\ stack' = [stack EXCEPT ![t] = Tail(@)]
    /\ call' = [call EXCEPT ![t] = outer]
    /\ IF ret[t].st = "ok"
       THEN /\ Goto(t, "in_initialize")
            /\ ret' = [ret EXCEPT ![t] = NoRet]
            /\ UNCHANGED init_failed
       ELSE /\ Goto(t, "done")
            /\ ret' = [ret EXCEPT ![t] = [st |-> "raise", v |-> None, e |-> ret[t].e]]
            /\ init_failed' = [init_failed EXCEPT ![outer.cls] = @ + 1]
    /\ UNCHANGED <<execs, mod_held, services, svc_lock, instance_counter, objs,
                   init_calls, init_ok,
                   started, init_plan, nested_made>>
    /\ UNCHANGED <<resVars, outsideNesting>>

\* initialize() returns once it has made the call of its plan
InitReturnsPlanned(t) ==
    /\ pc[t] = "in_initialize"
    /\ \/ init_plan[call[t].cls].route = "none"
       \/ <<t, call[t].inst>> \in nested_made
    /\ InitReturns(t)

\* The steps of a call that has begun, but for the lookup in the registry
StepNestedOther(t) ==
    \/ LoadStep(t)
    \/ NewLock(t)
    \/ NewCreate(t)
    \/ NewUnlock(t)
    \/ InitHas(t)
    \/ InitClear(t)
    \/ InitRead(t)
    \/ InitSet(t)
    \/ InitCall(t)
    \/ InitNested(t)
    \/ NestedReturn(t)
    \/ InitReturnsPlanned(t)
    \/ CtorReturn(t)

\* The steps of a call that has begun
StepNested(t) ==
    \/ NewGet(t)
    \/ StepNestedOther(t)

NextNested ==
    \E t \in Threads :
        \/ \E cls \in SvcFiles, route \in {"ctor", "resolve"} :
              StartOuter(t, cls, route)
        \/ StepNested(t)

----------------------------------------------------------------------------
(* The library singleton: WL.__new__ (src/wl.py:235-249) and               *)
(* WhiteLabel.__new__ (src/white_label.py:229-238)                         *)

LibBases == {"WL", "WhiteLabel"}
LibTypes == {[base |-> b, n |-> n] : b \in LibBases, n \in 1 .. 2}

InitLibrary ==
    /\ lib_instances = {}
    /\ lib_lock = [b \in LibBases |-> 0]
    /\ lib_inits = [c \in LibTypes |-> 0]
    /\ lib_made = 0

\* Thread t calls cls(lib_path) for the library subtype cls
StartLibrary(t, cls) ==
    /\ Idle(t)
    /\ started < MaxCalls
    /\ started' = started + 1
    /\ call' = [call EXCEPT ![t] = [NoCallSvc EXCEPT !.cls = cls, !.route = "library"]]
    /\ ret' = [ret EXCEPT ![t] = NoRet]
    /\ Goto(t, "lib_lock")
    /\ UNCHANGED <<execs, mod_held, services, svc_lock, instance_counter, objs,
                   init_calls, init_ok,
                   init_failed>>
    /\ UNCHANGED <<libVars, outsideLibrary>>

\* with cls._lock (wl.py:241, white_label.py:233)
LibLock(t) ==
    /\ pc[t] = "lib_lock"
    /\ lib_lock[call[t].cls.base] = 0
    /\ lib_lock' = [lib_lock EXCEPT ![call[t].cls.base] = t]
    /\ Goto(t, "lib_test")
    /\ UNCHANGED <<execs, mod_held, services, svc_lock, instance_counter, objs,
                   init_calls, init_ok,
                   init_failed, started, call, ret>>
    /\ UNCHANGED <<lib_instances, lib_inits, lib_made, outsideLibrary>>

\* if cls not in cls._instances: inst = super().__new__(cls)
\* (wl.py:242-243, white_label.py:234-235)
LibTest(t) ==
    /\ pc[t] = "lib_test"
    /\ IF Has(lib_instances, call[t].cls)
       THEN /\ Goto(t, "lib_unlock")
            /\ UNCHANGED <<call, lib_made>>
       ELSE /\ lib_made' = lib_made + 1
            /\ call' = [call EXCEPT ![t].inst = lib_made + 1]
            /\ Goto(t, "lib_init")
    /\ UNCHANGED <<execs, mod_held, services, svc_lock, instance_counter, objs,
                   init_calls, init_ok,
                   init_failed, started, ret>>
    /\ UNCHANGED <<lib_instances, lib_lock, lib_inits, outsideLibrary>>

\* inst.initialize(...) (wl.py:246, white_label.py:236). WL.initialize
\* (wl.py:408-436) raises TypeError at Conf() (wl.py:425): Conf is a Service,
\* and Service.__new__ requires lib and module_name (service.py:50).
\* WhiteLabel.initialize (white_label.py:366-377) returns.
LibInitialize(t) ==
    /\ pc[t] = "lib_init"
    /\ lib_inits' = [lib_inits EXCEPT ![call[t].cls] = @ + 1]
    /\ IF call[t].cls.base = "WL"
       THEN /\ ret' = [ret EXCEPT ![t] =
                         [st |-> "raise", v |-> None,
                          e |-> Err("TypeError", "missing arguments", <<>>, <<>>)]]
            /\ Goto(t, "lib_unwind")
       ELSE /\ Goto(t, "lib_insert")
            /\ UNCHANGED ret
    /\ UNCHANGED <<execs, mod_held, services, svc_lock, instance_counter, objs,
                   init_calls, init_ok,
                   init_failed, started, call>>
    /\ UNCHANGED <<lib_instances, lib_lock, lib_made, outsideLibrary>>

\* The error leaves the with block: the lock is released, nothing is stored
LibUnwind(t) ==
    /\ pc[t] = "lib_unwind"
    /\ lib_lock' = [lib_lock EXCEPT ![call[t].cls.base] = 0]
    /\ Goto(t, "done")
    /\ UNCHANGED <<execs, mod_held, services, svc_lock, instance_counter, objs,
                   init_calls, init_ok,
                   init_failed, started, call, ret>>
    /\ UNCHANGED <<lib_instances, lib_inits, lib_made, outsideLibrary>>

\* cls._instances[cls] = inst (wl.py:247, white_label.py:237)
LibInsert(t) ==
    /\ pc[t] = "lib_insert"
    /\ lib_instances' = Put(lib_instances, call[t].cls, call[t].inst)
    /\ Goto(t, "lib_unlock")
    /\ UNCHANGED <<execs, mod_held, services, svc_lock, instance_counter, objs,
                   init_calls, init_ok,
                   init_failed, started, call, ret>>
    /\ UNCHANGED <<lib_lock, lib_inits, lib_made, outsideLibrary>>

\* The with block ends
LibUnlock(t) ==
    /\ pc[t] = "lib_unlock"
    /\ lib_lock' = [lib_lock EXCEPT ![call[t].cls.base] = 0]
    /\ Goto(t, "lib_return")
    /\ UNCHANGED <<execs, mod_held, services, svc_lock, instance_counter, objs,
                   init_calls, init_ok,
                   init_failed, started, call, ret>>
    /\ UNCHANGED <<lib_instances, lib_inits, lib_made, outsideLibrary>>

\* return cls._instances[cls] (wl.py:249, white_label.py:238)
LibReturn(t) ==
    /\ pc[t] = "lib_return"
    /\ ret' = [ret EXCEPT ![t] =
                 [st |-> "ok",
                  v |-> Val("lib", call[t].cls, Get(lib_instances, call[t].cls)),
                  e |-> NoErr]]
    /\ Goto(t, "done")
    /\ UNCHANGED <<execs, mod_held, services, svc_lock, instance_counter, objs,
                   init_calls, init_ok,
                   init_failed, started, call>>
    /\ UNCHANGED <<libVars, outsideLibrary>>

NextLibrary ==
    \E t \in Threads :
        \/ \E cls \in LibTypes : StartLibrary(t, cls)
        \/ LibLock(t)
        \/ LibTest(t)
        \/ LibInitialize(t)
        \/ LibUnwind(t)
        \/ LibInsert(t)
        \/ LibUnlock(t)
        \/ LibReturn(t)

----------------------------------------------------------------------------
(* Function identities (src/core/function.py) and the hook registry        *)
(* (src/core/events.py)                                                    *)

MaxHooks == 3

\* A callable: a bound method (of object self), a plain function, or a
\* Function already. Functions 1 and 2 are used as triggers, 3 to 5 as
\* callbacks (function 3 as a method of two objects); calling function 4
\* raises.
Bound(o, f) == [kind |-> "bound",    self |-> o, func |-> f]
Plain(f)    == [kind |-> "plain",    self |-> 0, func |-> f]
Wrapped(fn) == [kind |-> "Function", self |-> fn.owner, func |-> fn.func]

TriggerCallables  == {Bound(1, 1), Plain(2)}
CallbackCallables == {Bound(1, 3), Bound(2, 3), Plain(4), Plain(5)}
Raises(f) == f = 4

\* Variant: a Function passed as callee is treated as a plain callable and
\* becomes the func of the new Function (func 10 * owner + func + 10 stands
\* for that Function object)
Function_Nests(callee) ==
    IF callee.kind = "Function"
    THEN [owner |-> 0, func |-> 10 * callee.self + callee.func + 10]
    ELSE IF callee.kind = "bound" THEN [owner |-> callee.self, func |-> callee.func]
    ELSE [owner |-> 0, func |-> callee.func]

\* Function.__init__(callee) (function.py:31-45)
Function(callee) ==
    IF callee.kind = "Function" THEN [owner |-> callee.self, func |-> callee.func]
    ELSE IF callee.kind = "bound" THEN [owner |-> callee.self, func |-> callee.func]
    ELSE [owner |-> 0, func |-> callee.func]

\* The argument every callback is called with (events.py:40)
Payload == [foo |-> "bar"]

NoFunction == [owner |-> 0, func |-> 0]

\* The record of a call: its arguments, the list of the trigger and whether
\* the trigger was a key before the call, the outcome, the callbacks invoked
\* and the payload each was given
EvCall(op, trig, cb, st, invoked, reg) ==
    [op |-> op, trigger |-> trig, callback |-> cb, st |-> st, invoked |-> invoked,
     payloads |-> [k \in 1 .. Len(invoked) |-> Payload],
     attached |-> IF Has(reg, trig) THEN Get(reg, trig) ELSE <<>>,
     found |-> Has(reg, trig)]

InitEvents ==
    /\ triggers = {}
    /\ ev_last = EvCall("none", NoFunction, NoFunction, "ok", <<>>, {})

Hooks(reg, trig) == IF Has(reg, trig) THEN Get(reg, trig) ELSE <<>>

TotalHooks(reg) ==
    LET RECURSIVE Sum(_)
        Sum(S) == IF S = {} THEN 0
                  ELSE LET e == CHOOSE x \in S : TRUE IN Len(e[2]) + Sum(S \ {e})
    IN Sum(reg)

\* Events.on(trigger, triggered) (events.py:17-21)
on(trigger, triggered) ==
    LET trig == Function(trigger)
        cb   == Function(triggered)
    IN
    /\ TotalHooks(triggers) < MaxHooks
    /\ triggers' = Put(triggers, trig, Append(Hooks(triggers, trig), cb))
    /\ ev_last' = EvCall("on", trig, cb, "ok", <<>>, triggers)
    /\ UNCHANGED outsideEvents

\* Variant: every element equal to x is removed
RemoveFirst_All(list, x) ==
    LET Differs(y) == y # x IN SelectSeq(list, Differs)

\* list.remove(x): the first element equal to x is removed
RECURSIVE RemoveFirst(_, _)
RemoveFirst(list, x) ==
    IF list = <<>> THEN <<>>
    ELSE IF Head(list) = x THEN Tail(list)
    ELSE <<Head(list)>> \o RemoveFirst(Tail(list), x)

\* Variant: a trigger whose last callback is detached is removed
off_DropsEmptyKey(trigger, triggered) ==
    LET trig == Function(trigger)
        cb   == Function(triggered)
        rest == RemoveFirst(Hooks(triggers, trig), cb)
    IN
    /\ triggers' = IF ~Has(triggers, trig) THEN triggers
                   ELSE IF rest = <<>> THEN {e \in triggers : e[1] # trig}
                   ELSE Put(triggers, trig, rest)
    /\ ev_last' = EvCall("off", trig, cb, "ok", <<>>, triggers)
    /\ UNCHANGED outsideEvents

\* Events.off(trigger, triggered) (events.py:25-31)
off(trigger, triggered) ==
    LET trig == Function(trigger)
        cb   == Function(triggered)
    IN
    /\ triggers' = IF Has(triggers, trig)
                   THEN Put(triggers, trig, RemoveFirst(Get(triggers, trig), cb))
                   ELSE triggers
    /\ ev_last' = EvCall("off", trig, cb, "ok", <<>>, triggers)
    /\ UNCHANGED outsideEvents

\* Variant: a callback attached several times is invoked once
RECURSIVE FireLoop_SkipsDuplicates(_, _, _)
FireLoop_SkipsDuplicates(list, i, invoked) ==
    IF i > Len(list) THEN [st |-> "ok", invoked |-> invoked]
    ELSE IF \E k \in 1 .. Len(invoked) : invoked[k] = list[i]
    THEN FireLoop_SkipsDuplicates(list, i + 1, invoked)
    ELSE IF Raises(list[i].func)
    THEN [st |-> "raise", invoked |-> Append(invoked, list[i])]
    ELSE FireLoop_SkipsDuplicates(list, i + 1, Append(invoked, list[i]))

\* for triggered in self.triggers[trigger]: triggered({'foo': 'bar'})
\* (events.py:39-40): a callback that raises ends the loop and the call
RECURSIVE FireLoop(_, _, _)
FireLoop(list, i, invoked) ==
    IF i > Len(list) THEN [st |-> "ok", invoked |-> invoked]
    ELSE IF Raises(list[i].func)
    THEN [st |-> "raise", invoked |-> Append(invoked, list[i])]
    ELSE FireLoop(list, i + 1, Append(invoked, list[i]))

\* Variant: the list of the trigger is read by subscript, which makes a
\* defaultdict create the entry
trigger_CreatesEntry(trig_callable) ==
    LET trig == Function(trig_callable)
        r    == FireLoop(Hooks(triggers, trig), 1, <<>>)
    IN
    /\ ev_last' = EvCall("trigger", trig, NoFunction, r.st, r.invoked, triggers)
    /\ triggers' = IF Has(triggers, trig) THEN triggers ELSE Put(triggers, trig, <<>>)
    /\ UNCHANGED outsideEvents

\* Events.trigger(trigger) (events.py:35-40)
trigger(trig_callable) ==
    LET trig == Function(trig_callable)
        r    == IF Has(triggers, trig) THEN FireLoop(Get(triggers, trig), 1, <<>>)
                ELSE [st |-> "ok", invoked |-> <<>>]
    IN
    /\ ev_last' = EvCall("trigger", trig, NoFunction, r.st, r.invoked, triggers)
    /\ UNCHANGED triggers
    /\ UNCHANGED outsideEvents

\* Events.has(trigger) (events.py:44-46)
has(trig_callable) ==
    LET trig == Function(trig_callable) IN
    /\ ev_last' = EvCall("has", trig, NoFunction, "ok", <<>>, triggers)
    /\ UNCHANGED triggers
    /\ UNCHANGED outsideEvents

\* The callables a caller may pass: the originals and their Function wrappers
WithWrappers(S) == S \cup {Wrapped(Function(c)) : c \in S}

NextEvents ==
    \/ \E t \in WithWrappers(TriggerCallables), c \in WithWrappers(CallbackCallables) :
          on(t, c)
    \/ \E t \in WithWrappers(TriggerCallables), c \in WithWrappers(CallbackCallables) :
          off(t, c)
    \/ \E t \in WithWrappers(TriggerCallables) : trigger(t)
    \/ \E t \in WithWrappers(TriggerCallables) : has(t)

----------------------------------------------------------------------------
(* A firing whose callbacks change the registry (src/core/events.py:35-40) *)
(* The for loop of Events.trigger iterates the list object stored in the   *)
(* registry: a list iterator holds a position and compares it with the     *)
(* length the list has at each step.                                       *)

NoFiring ==
    [active |-> FALSE, st |-> "none", trigger |-> NoFunction, i |-> 0,
     attached |-> <<>>, invoked |-> <<>>]

InitFiring == firing = NoFiring

\* The trigger that fires and the callbacks attached to it: a bound
\* method, a function that raises and one that does not
FiringTriggers  == {Bound(1, 1)}
FiringCallbacks == {Bound(1, 3), Plain(4), Plain(5)}

\* What the body of a callback does when it is invoked: nothing, or a call
\* of on or off for the trigger that is firing
CallbackBodies ==
    {[op |-> "none", cb |-> NoFunction]}
        \cup {[op |-> o, cb |-> Function(c)] : o \in {"on", "off"}, c \in FiringCallbacks}

\* The registry after Events.on / Events.off called by a callback
RegistryAfter(reg, trig, body) ==
    IF body.op = "on" THEN Put(reg, trig, Append(Hooks(reg, trig), body.cb))
    ELSE IF body.op = "off" /\ Has(reg, trig)
    THEN Put(reg, trig, RemoveFirst(Get(reg, trig), body.cb))
    ELSE reg

\* Variant: the loop iterates a copy of the list made when the firing began
FiringList_Snapshot == firing.attached

\* The list the loop iterates: the one the registry holds now
FiringList == Get(triggers, firing.trigger)

\* Events.trigger(trigger) begins: the trigger is a key and the loop starts
FireStart(trig_callable) ==
    LET trig == Function(trig_callable) IN
    /\ ~firing.active
    /\ Has(triggers, trig)
    /\ firing' = [active |-> TRUE, st |-> "running", trigger |-> trig, i |-> 1,
                  attached |-> Get(triggers, trig), invoked |-> <<>>]
    /\ UNCHANGED evVars
    /\ UNCHANGED outsideFiring

\* One pass of the loop: the callback at the position is called, and its
\* body runs before the loop goes on; a callback that raises ends the call
FireInvoke(body) ==
    LET list == FiringList
        cb   == list[firing.i]
    IN
    /\ firing.active
    /\ firing.i <= Len(list)
    /\ body.op = "on" => TotalHooks(triggers) < MaxHooks
    /\ IF Raises(cb.func)
       THEN /\ firing' = [firing EXCEPT !.active = FALSE, !.st = "raise",
                                        !.invoked = Append(@, cb)]
            /\ ev_last' = EvCall("trigger", firing.trigger, NoFunction, "raise",
                                 Append(firing.invoked, cb), triggers)
            /\ UNCHANGED triggers
       ELSE /\ firing' = [firing EXCEPT !.i = @ + 1, !.invoked = Append(@, cb)]
            /\ triggers' = RegistryAfter(triggers, firing.trigger, body)
            /\ UNCHANGED ev_last
    /\ UNCHANGED outsideFiring

\* The iterator is exhausted: the position is past the end of the list
FireEnd ==
    /\ firing.active
    /\ firing.i > Len(FiringList)
    /\ firing' = [firing EXCEPT !.active = FALSE, !.st = "ok"]
    /\ ev_last' = EvCall("trigger", firing.trigger, NoFunction, "ok",
                         firing.invoked, triggers)
    /\ UNCHANGED triggers
    /\ UNCHANGED outsideFiring

NextFiring ==
    \/ \E t \in FiringTriggers, c \in FiringCallbacks : ~firing.active /\ on(t, c)
    \/ \E t \in FiringTriggers, c \in FiringCallbacks : ~firing.active /\ off(t, c)
    \/ \E t \in FiringTriggers : FireStart(t)
    \/ \E body \in CallbackBodies : FireInvoke(body)
    \/ FireEnd

----------------------------------------------------------------------------
(* Member access on a Module instance (src/core/module.py)                 *)

\* The members of the instance (object 1 of a Module subclass): two public
\* methods (functions 1 and 3), a method whose name starts with an
\* underscore (function 5) and a data attribute
ModuleSelf == 1
ModuleMembers ==
    {[name |-> "work",    callable |-> TRUE,  func |-> 1],
     [name |-> "cb",      callable |-> TRUE,  func |-> 3],
     [name |-> "_hidden", callable |-> TRUE,  func |-> 5],
     [name |-> "x",       callable |-> FALSE, func |-> 0]}
MemberNames == {mb.name : mb \in ModuleMembers} \cup {"missing"}

HasMember(name) == \E mb \in ModuleMembers : mb.name = name
Member(name) == CHOOSE mb \in ModuleMembers : mb.name = name
IsPublic(name) == name \notin {"_hidden"}

\* The Function a member is registered under
MemberKey(name) == Function(Bound(ModuleSelf, Member(name).func))

\* The outcome of an access followed, for a callable result, by one call of
\* it: what was returned, the callbacks fired by the call in order, and
\* whether the member itself was called (after the firing)
Access(op, name, st, err, result, fired, called) ==
    [op |-> op, name |-> name, st |-> st, err |-> err, result |-> result,
     fired |-> fired, called |-> called,
     hooks |-> IF HasMember(name) /\ Member(name).callable
               THEN Hooks(triggers, MemberKey(name)) ELSE <<>>,
     registered |-> HasMember(name) /\ Member(name).callable
                    /\ Has(triggers, MemberKey(name))]

InitModule == mod_last = [op |-> "none", name |-> "", st |-> "ok", err |-> "",
                          result |-> "none", fired |-> <<>>, called |-> FALSE,
                          hooks |-> <<>>, registered |-> FALSE]

\* Module.__getattr__(self, name) (module.py:47-59).
\* object.__getattribute__ raises AttributeError for a name the instance does
\* not have (line 49); for a public callable member the test of line 51
\* calls Events.has on the class, with attr in the place of self and no
\* trigger, which raises TypeError; anything else is returned as it is
Module_getattr(op, name) ==
    IF ~HasMember(name)
    THEN Access(op, name, "raise", "AttributeError", "none", <<>>, FALSE)
    ELSE IF IsPublic(name) /\ Member(name).callable
    THEN Access(op, name, "raise", "TypeError", "none", <<>>, FALSE)
    ELSE Access(op, name, "ok", "", "member", <<>>, Member(name).callable)

\* obj.name, and obj.name(...) when the result is callable: the interpreter
\* calls __getattr__ only when the normal lookup did not find the name, so a
\* member of the instance is returned by the normal lookup and a call of it
\* calls the member directly
GetMember(name) ==
    /\ mod_last' = IF HasMember(name)
                   THEN Access("access", name, "ok", "", "member", <<>>,
                               Member(name).callable)
                   ELSE Module_getattr("access", name)
    /\ UNCHANGED outsideModule

\* obj.__getattr__(name) called explicitly
CallGetattr(name) ==
    /\ mod_last' = Module_getattr("__getattr__", name)
    /\ UNCHANGED outsideModule

\* The hooks attached to the methods of the instance
MemberTriggers  == {Bound(ModuleSelf, mb.func) : mb \in {x \in ModuleMembers : x.name = "work"}}
MemberCallbacks == {Bound(ModuleSelf, 3), Plain(5)}

NextModule ==
    \/ \E t \in MemberTriggers, c \in MemberCallbacks : on(t, c)
    \/ \E t \in MemberTriggers, c \in MemberCallbacks : off(t, c)
    \/ \E name \in MemberNames : GetMember(name)
    \/ \E name \in MemberNames : CallGetattr(name)

----------------------------------------------------------------------------
(* Equality, hash and re-wrapping of Functions (src/core/function.py)      *)

MaxDepth == 3

\* Owners: instances 1 and 2 of one class, and the class itself (object 3,
\* the owner of its classmethods). Functions 1 and 3 are methods, 2 is a
\* classmethod, 4 is a module-level function, 5 and 6 are two closures made
\* by the same def statement: distinct objects with one module and one
\* qualified name.
FnOwners  == {1, 2}
FnMethods == {1, 3}
FnClass   == 3
FnPlain   == {4, 5, 6}

\* A callable object: each evaluation of obj.method makes a new bound-method
\* object (id k) with the same __self__ and __func__
BoundAt(o, f, k) == [kind |-> "bound", self |-> o, func |-> f, id |-> k]
PlainAt(f)       == [kind |-> "plain", self |-> 0, func |-> f, id |-> 0]
FunctionAt(fn)   == [kind |-> "Function", self |-> fn.owner, func |-> fn.func, id |-> 0]

FnCallables ==
    {BoundAt(o, f, k) : o \in FnOwners, f \in FnMethods, k \in {1, 2}}
        \cup {BoundAt(FnClass, 2, k) : k \in {1, 2}}
        \cup {PlainAt(f) : f \in FnPlain}

\* getattr(func, '__module__', None) and Function._func_id (function.py:67,
\* 93-98); a func that is no function of the program is a Function object
FuncModule(f) == IF f \in 1 .. 3 THEN "shapes" ELSE IF f \in 4 .. 6 THEN "tools"
                 ELSE "function"
FuncId(f) == IF f \in 1 .. 3 THEN <<"C", f>> ELSE IF f = 4 THEN <<"helper", 0>>
             ELSE IF f \in 5 .. 6 THEN <<"make.<locals>.inner", 0>>
             ELSE <<"Function", 0>>

\* Function.__hash__ (function.py:64-69): the tuple that is hashed
Function_hash(fn) ==
    <<IF fn.owner # 0 THEN <<"id", fn.owner>> ELSE <<"None", 0>>,
      FuncModule(fn.func), FuncId(fn.func)>>

\* Variant: equal when the hashed tuples are equal
Function_eq_ByHash(a, b) == Function_hash(a) = Function_hash(b)

\* Function.__eq__(self, other) for a Function other (function.py:73-79)
Function_eq(a, b) == a.owner = b.owner /\ a.func = b.func

\* Function(Function(... Function(c))) with depth constructor calls after
\* the first
RECURSIVE Rewrap(_, _)
Rewrap(fn, depth) ==
    IF depth = 0 THEN fn ELSE Rewrap(Function(FunctionAt(fn)), depth - 1)

FnCall(op, a, b, depth) ==
    [op |-> op, a |-> a, b |-> b, depth |-> depth,
     fa |-> Function(a), fb |-> Function(b),
     eq |-> Function_eq(Function(a), Function(b)),
     deep |-> Rewrap(Function(a), depth)]

InitFunction == fn_last = FnCall("none", PlainAt(4), PlainAt(4), 0)

\* Function(a) == Function(b)
Compare(a, b) ==
    /\ fn_last' = FnCall("eq", a, b, 0)
    /\ UNCHANGED outsideFunction

\* Function(x) for the Function x made last from the first callable
WrapAgain ==
    /\ fn_last.op # "none"
    /\ fn_last.depth < MaxDepth
    /\ fn_last' = FnCall("wrap", fn_last.a, fn_last.b, fn_last.depth + 1)
    /\ UNCHANGED outsideFunction

NextFunction ==
    \/ \E a \in FnCallables, b \in FnCallables : Compare(a, b)
    \/ WrapAgain

----------------------------------------------------------------------------
(* Functions as keys of the hook registry (src/core/events.py,             *)
(* src/core/function.py). The registry is a dict: a key is found when a    *)
(* stored key has the hash of the key asked for and equals it.             *)

\* Triggers: the two closures of one def statement and one method of two
\* instances; callbacks that do not raise
KeyTriggers  == {PlainAt(5), PlainAt(6), BoundAt(1, 1, 1), BoundAt(2, 1, 1)}
KeyCallbacks == {Plain(5), Bound(1, 3)}

\* The entries of the dict whose key matches (at most one)
Dict_find(reg, key) ==
    {e \in reg : Function_hash(e[1]) = Function_hash(key) /\ Function_eq(e[1], key)}

\* key in self.triggers
Dict_contains(reg, key) == Dict_find(reg, key) # {}

\* self.triggers[key] of the defaultdict: the list stored, or a new one
Dict_getitem(reg, key) ==
    IF Dict_contains(reg, key) THEN (CHOOSE e \in Dict_find(reg, key) : TRUE)[2]
    ELSE <<>>

\* The dict after the list of the key has been replaced: a key that is found
\* keeps the stored key object
Dict_setitem(reg, key, list) ==
    IF Dict_contains(reg, key)
    THEN LET e == CHOOSE x \in Dict_find(reg, key) : TRUE
         IN (reg \ {e}) \cup {<<e[1], list>>}
    ELSE reg \cup {<<key, list>>}

KeyCall(op, trig, cb, invoked, reg) ==
    [EvCall(op, trig, cb, "ok", invoked, reg) EXCEPT
        !.found = Dict_contains(reg, trig),
        !.attached = Dict_getitem(reg, trig)]

\* Events.on(trigger, triggered) (events.py:17-21)
KeyOn(trigger_callable, triggered) ==
    LET trig == Function(trigger_callable)
        cb   == Function(triggered)
    IN
    /\ TotalHooks(triggers) < MaxHooks
    /\ triggers' = Dict_setitem(triggers, trig, Append(Dict_getitem(triggers, trig), cb))
    /\ ev_last' = KeyCall("on", trig, cb, <<>>, triggers)
    /\ UNCHANGED outsideEvents

\* Events.has(trigger) (events.py:44-46)
KeyHas(trigger_callable) ==
    LET trig == Function(trigger_callable) IN
    /\ ev_last' = KeyCall("has", trig, NoFunction, <<>>, triggers)
    /\ UNCHANGED triggers
    /\ UNCHANGED outsideEvents

\* Events.trigger(trigger) (events.py:35-40)
KeyTrigger(trigger_callable) ==
    LET trig == Function(trigger_callable)
        r    == IF Dict_contains(triggers, trig)
                THEN FireLoop(Dict_getitem(triggers, trig), 1, <<>>)
                ELSE [st |-> "ok", invoked |-> <<>>]
    IN
    /\ ev_last' = KeyCall("trigger", trig, NoFunction, r.invoked, triggers)
    /\ UNCHANGED triggers
    /\ UNCHANGED outsideEvents

NextKeys ==
    \/ \E t \in KeyTriggers, c \in KeyCallbacks : KeyOn(t, c)
    \/ \E t \in KeyTriggers : KeyHas(t)
    \/ \E t \in KeyTriggers : KeyTrigger(t)
    \/ \E a \in KeyTriggers, b \in KeyTriggers : Compare(a, b)

----------------------------------------------------------------------------
(* The resolver as a state machine                                         *)

\* The names attribute access is tried with, and the directory trees
SegA  == <<"a">>
SegAB == <<"a", "_", "b">>
Names == {<<"a">>, <<"A">>, <<"a", "B">>}

Shape(stem, sh) ==
    CASE sh = "none"          -> {}
      [] sh = "dir"           -> {<<stem, "dir">>}
      [] sh = "dir_py"        -> {<<stem, "dir">>, <<WithExt(stem, ExtPy), "py_module">>}
      [] sh = "dir_json"      -> {<<stem, "dir">>, <<WithExt(stem, ExtJson), "data_ok">>}
      [] sh = "py_module"     -> {<<WithExt(stem, ExtPy), "py_module">>}
      [] sh = "py_service"    -> {<<WithExt(stem, ExtPy), "py_service">>}
      [] sh = "py_noattr"     -> {<<WithExt(stem, ExtPy), "py_noattr">>}
      [] sh = "py_notmodule"  -> {<<WithExt(stem, ExtPy), "py_notmodule">>}
      [] sh = "py_value"      -> {<<WithExt(stem, ExtPy), "py_value">>}
      [] sh = "py_json"       -> {<<WithExt(stem, ExtPy), "py_module">>,
                                  <<WithExt(stem, ExtJson), "data_ok">>}
      [] sh = "json"          -> {<<WithExt(stem, ExtJson), "data_ok">>}
      [] sh = "txt"           -> {<<WithExt(stem, ExtTxt), "text">>}
      [] sh = "md"            -> {<<WithExt(stem, ExtMd), "text">>}
      [] sh = "yml"           -> {<<WithExt(stem, ExtYml), "data_ok">>}
      [] sh = "yaml"          -> {<<WithExt(stem, ExtYaml), "data_ok">>}
      [] sh = "json_null"     -> {<<WithExt(stem, ExtJson), "data_null">>}
      [] sh = "json_bad"      -> {<<WithExt(stem, ExtJson), "data_bad">>}
      [] sh = "yml_json"      -> {<<WithExt(stem, ExtYml), "data_ok">>,
                                  <<WithExt(stem, ExtJson), "data_ok">>}
      [] sh = "yml_yaml"      -> {<<WithExt(stem, ExtYml), "data_ok">>,
                                  <<WithExt(stem, ExtYaml), "data_ok">>}
      [] sh = "yml_jsonnull"  -> {<<WithExt(stem, ExtYml), "data_ok">>,
                                  <<WithExt(stem, ExtJson), "data_null">>}
      [] sh = "yml_jsonbad"   -> {<<WithExt(stem, ExtYml), "data_ok">>,
                                  <<WithExt(stem, ExtJson), "data_bad">>}

TopShapes == {"none", "dir", "dir_py", "dir_json", "py_module", "py_service",
              "py_noattr", "py_notmodule", "py_json", "json", "yml", "yaml",
              "json_null", "json_bad", "yml_json", "yml_yaml", "yml_jsonnull",
              "yml_jsonbad"}
SubShapes == {"none", "py_module", "py_service", "json"}
PluginSpecShapes == {"none", "dir", "py_module", "json"}

\* core/a..., core/a_b... and, when core/a is a directory, core/a/a_b...
TreesOf(tops, others, subs) ==
    {Shape(<<SegA>>, s1) \cup Shape(<<SegAB>>, s2)
       \cup (IF <<<<SegA>>, "dir">> \in Shape(<<SegA>>, s1)
             THEN Shape(<<SegA, SegAB>>, s3) ELSE {}) :
     s1 \in tops, s2 \in others, s3 \in subs}

Trees(tops, subs) == TreesOf(tops, tops, subs)

NoCall == [op |-> "none", name |-> <<>>, base |-> <<>>, path |-> <<>>,
           st |-> "ok", v |-> None, e |-> NoErr, calls |-> <<>>, seen |-> FALSE]

\* No handle used yet, no package entry file loaded
InitNamespace ==
    /\ pkg_cache = {}
    /\ ns_last = [op |-> "none", kind |-> "none", path |-> <<>>, name |-> <<>>,
                  st |-> "ok", v |-> None, e |-> NoErr, resolved |-> FALSE,
                  calls |-> <<>>]

\* Conf after construction: initialize() has set _data, here to {} (dotenv
\* not installed, or no .env file); the values of a .env file are the ones
\* conf[name] = value puts there
ConfKeys   == {"K1", "K2"}
ConfValues == {"v1", "v2"}

NoConfErr == [type |-> "none", text |-> <<>>]
ConfCall(op, key, value, st, v, e) ==
    [op |-> op, key |-> key, value |-> value, st |-> st, v |-> v, e |-> e]

InitConf ==
    /\ conf_data = [has |-> TRUE, d |-> {}]
    /\ environ = {}
    /\ conf_last = ConfCall("none", "", "", "ok", "", NoConfErr)

\* No name converted yet
InitCodec == codec_last = [op |-> "none", x |-> <<>>, camel |-> <<>>, back |-> <<>>]

InitProgram(trees, plans) ==
    /\ fs \in trees
    /\ plugins = <<>>
    /\ ns_cache = {}
    /\ class_cache = {}
    /\ data_cache = {}
    /\ module_cache = {}
    /\ common_cache = {}
    /\ heap = 0
    /\ hist = {}
    /\ last = NoCall
    /\ InitServices
    /\ InitEvents
    /\ InitLibrary
    /\ InitModule
    /\ InitFunction
    /\ InitCodec
    /\ InitNamespace
    /\ InitConf
    /\ init_plan \in plans
    /\ stack = [t \in Threads |-> <<>>]
    /\ nested_made = {}
    /\ InitFiring

\* A library whose services' initialize() calls for no other service
InitResolver(trees) == InitProgram(trees, {[c \in SvcFiles |-> NoPlan]})

\* The base paths attribute access can start from: the library itself
\* (WL.__getattr__) or a Namespace handle obtained earlier
\* (Namespace.__getattr__)
Bases == {core_path} \cup {e[2].p : e \in ns_cache}

\* The values the caches hold: handles, classes, instances, parsed data
Cacheable(r) == r.st = "ok" /\ r.v.k \in {"ns", "class", "inst", "data"}

\* lib._resolve(name, base) by WL.__getattr__ or Namespace.__getattr__
Resolve(name, base) ==
    LET r    == WL_resolve(Store, plugins, name, base)
        path == Join(base, camel_to_snake(name))
    IN
    /\ base \in Bases
    /\ ns_cache'     = r.store.ns
    /\ class_cache'  = r.store.cls
    /\ data_cache'   = r.store.data
    /\ module_cache' = r.store.mods
    /\ common_cache' = r.store.cmods
    /\ heap'         = r.store.heap
    /\ hist' = IF Has(hist, path) \/ ~Cacheable(r) THEN hist ELSE Put(hist, path, r.v)
    /\ last' = [op |-> "resolve", name |-> name, base |-> base, path |-> path,
                st |-> r.st, v |-> r.v, e |-> r.e, calls |-> r.calls,
                seen |-> Has(hist, path)]
    /\ UNCHANGED <<fs, plugins>>
    /\ UNCHANGED outsideResolver

\* File(lib, path).load() of a file below core_path. Files whose class is a
\* service are loaded by the threads of NextSvc.
FilePaths == {e[1] : e \in {f \in fs : f[2] # "dir"}} \cup {WithExt(<<SegAB>>, ExtPy)}

FileLoad(path) ==
    LET r == File_load(Store, plugins, path) IN
    /\ ~(isfile(path) /\ KindOf(path) = "py_service")
    /\ ns_cache'     = r.store.ns
    /\ class_cache'  = r.store.cls
    /\ data_cache'   = r.store.data
    /\ module_cache' = r.store.mods
    /\ common_cache' = r.store.cmods
    /\ heap'         = r.store.heap
    /\ last' = [op |-> "file_load", name |-> <<>>, base |-> <<>>, path |-> path,
                st |-> r.st, v |-> r.v, e |-> r.e, calls |-> r.calls, seen |-> FALSE]
    /\ UNCHANGED <<fs, plugins, hist>>
    /\ UNCHANGED outsideResolver

\* Whether the module of a code file holds a type: a file that defines a
\* class holds it (kind "py_notmodule": a class that is no Module subclass);
\* one that defines no class (no attribute of the name, or a value that is
\* no class, kind "py_value") may hold a type it imports
TypesIn(path) == IF KindOf(path) \in {"py_noattr", "py_value"} THEN BOOLEAN ELSE {TRUE}

\* WL.imp(file_path) (wl.py:455-463): the file is loaded through
\* load_module; the test of the first type of the module names WhiteLabel,
\* which wl.py does not define, and a module without a type ends the loop
WL_imp(st, path, has_type) ==
    LET m == load_module(st, path) IN
    IF has_type
    THEN Raised(Err("NameError", "WhiteLabel", path, <<>>), m.store, m.calls)
    ELSE Raised(Err("RuntimeError", "No WhiteLabel instance produced", path, <<>>),
                m.store, m.calls)

\* WL.imp(path) of a code file of the tree
Imp(path) ==
    /\ isfile(path)
    /\ KindOf(path) \in {"py_module", "py_service", "py_noattr", "py_notmodule",
                        "py_value"}
    /\ \E has_type \in TypesIn(path) :
         LET r == WL_imp(Store, path, has_type) IN
         /\ module_cache' = r.store.mods
         /\ last' = [op |-> "imp", name |-> <<>>, base |-> <<>>, path |-> path,
                     st |-> r.st, v |-> r.v, e |-> r.e, calls |-> r.calls,
                     seen |-> FALSE]
    /\ UNCHANGED <<fs, plugins, ns_cache, class_cache, data_cache, common_cache,
                   heap, hist>>
    /\ UNCHANGED outsideResolver

\* plugin_class.__name__: class ShadowClass is a second class that carries
\* the name of class 1
ShadowClass == 7
PluginName(c) == IF c = ShadowClass THEN 1 ELSE c

\* name in self._plugins (wl.py:481)
InRegistry(reg, c) == \E i \in 1 .. Len(reg) : PluginName(reg[i]) = PluginName(c)

\* Variant: a class whose name is registered replaces the registered plugin
\* and moves to the end of the registry, without an error
add_plugin_Replaces(c) ==
    LET Others(x) == PluginName(x) # PluginName(c) IN
    /\ InRegistry(plugins, c) \/ Len(plugins) < MaxPlugins
    /\ plugins' = Append(SelectSeq(plugins, Others), c)
    /\ last' = [NoCall EXCEPT !.op = "add_plugin",
                  !.calls = <<Ev("contains", <<>>, c), Ev("instantiate", <<>>, c)>>]
    /\ UNCHANGED <<fs, ns_cache, class_cache, data_cache, module_cache, common_cache,
                   heap, hist>>
    /\ UNCHANGED outsideResolver

\* WL.add_plugin(plugin_class) (src/wl.py:479-483): the test of the name and,
\* for a new name, plugin_class() stored under it
add_plugin(c) ==
    /\ IF InRegistry(plugins, c)
       THEN /\ plugins' = plugins
            /\ last' = [NoCall EXCEPT !.op = "add_plugin", !.st = "raise",
                          !.e = Err("ValueError", "already registered", <<>>, <<>>),
                          !.calls = <<Ev("contains", <<>>, c)>>]
       ELSE /\ Len(plugins) < MaxPlugins
            /\ plugins' = Append(plugins, c)
            /\ last' = [NoCall EXCEPT !.op = "add_plugin",
                          !.calls = <<Ev("contains", <<>>, c), Ev("instantiate", <<>>, c)>>]
    /\ UNCHANGED <<fs, ns_cache, class_cache, data_cache, module_cache, common_cache,
                   heap, hist>>
    /\ UNCHANGED outsideResolver

----------------------------------------------------------------------------
(* The earlier revision of the resolver (src/white_label.py)               *)

\* str.capitalize(): first character upper-cased, the rest lower-cased
Capitalize(s) == IF s = <<>> THEN <<>> ELSE <<Upper(Head(s))>> \o LowerStr(Tail(s))

RECURSIVE JoinCapitalized(_)
JoinCapitalized(parts) ==
    IF parts = <<>> THEN <<>>
    ELSE Capitalize(Head(parts)) \o JoinCapitalized(Tail(parts))

\* snake_to_camel(name) of src/white_label.py
snake_to_camel_old(name) == JoinCapitalized(Split(name, <<>>))

\* WhiteLabel._get_module_name(path)
get_module_name_old(path) ==
    JoinDots(<<lib_name>> \o SubSeq(path, 1, Len(path) - 1)
             \o <<snake_to_camel_old(path[Len(path)])>>)

\* WhiteLabel._load_py_module(path) with _get_class(path); load_module of
\* this revision executes the file on every call
WhiteLabel_load_py_module(st, path, calls) ==
    IF Has(st.cls, path) THEN Returned(Get(st.cls, path), st, calls)
    ELSE
      LET kind   == KindOf(path)
          calls1 == calls \o <<Ev("exec", path, 0), Ev("getattr", path, 0)>>
      IN
      IF kind \in {"py_noattr", "py_notmodule", "py_value"}
      THEN Raised(Err("AttributeError", "defines no lib.Module", path, ModuleLabel),
                  st, calls1)
      ELSE Returned(ClassOf(path),
                    [st EXCEPT !.cls = Put(@, path, ClassOf(path))],
                    Append(calls1, Ev("stamp", path, 0)))

\* The namespace branch: a handle is made only when none is cached, and a
\* cached one is not read back
NamespaceBranchOld(st, path) ==
    IF Has(st.ns, path) THEN Returned(None, st, <<>>)
    ELSE LET obj == Val("ns", path, st.heap + 1) IN
         Returned(obj, [st EXCEPT !.ns = Put(@, path, obj), !.heap = @ + 1], <<>>)

\* WhiteLabel._resolve(name, path) (src/white_label.py:254-276)
WhiteLabel_resolve(st, name, base) ==
    LET path == Join(base, camel_to_snake(name))
        r    == IF isdir(path) THEN NamespaceBranchOld(st, path)
                ELSE IF isfile(WithExt(path, ExtPy))
                THEN WhiteLabel_load_py_module(st, WithExt(path, ExtPy), <<>>)
                ELSE DataLoopWL(st, path, 1, None, <<>>)
    IN
    IF r.st = "ok" /\ r.v = None
    THEN Raised(Err("AttributeError", "does not exist", <<>>, get_module_name_old(path)),
                r.store, r.calls)
    ELSE r

ResolveOld(name, base) ==
    LET r    == WhiteLabel_resolve(Store, name, base)
        path == Join(base, camel_to_snake(name))
    IN
    /\ base \in Bases
    /\ ns_cache'     = r.store.ns
    /\ class_cache'  = r.store.cls
    /\ data_cache'   = r.store.data
    /\ heap'         = r.store.heap
    /\ hist' = IF Has(hist, path) \/ ~Cacheable(r) THEN hist ELSE Put(hist, path, r.v)
    /\ last' = [op |-> "resolve", name |-> name, base |-> base, path |-> path,
                st |-> r.st, v |-> r.v, e |-> r.e, calls |-> r.calls,
                seen |-> Has(hist, path)]
    /\ UNCHANGED <<fs, plugins, module_cache, common_cache>>
    /\ UNCHANGED outsideResolver

OldShapes == {"none", "dir", "dir_py", "py_module", "py_noattr", "py_notmodule",
              "json", "yml_json", "json_null"}

----------------------------------------------------------------------------
(* WL._resolve of a directory run by several threads (src/wl.py:268-311):  *)
(* the namespace branch takes no lock                                      *)

\* Thread t calls lib._resolve(name, base) for a path that is a directory
\* (wl.py:269-274)
StartResolveDir(t, name, base) ==
    LET path == Join(base, camel_to_snake(name)) IN
    /\ Idle(t)
    /\ started < MaxCalls
    /\ base \in Bases
    /\ isdir(path)
    /\ started' = started + 1
    /\ call' = [call EXCEPT ![t] = [NoCallSvc EXCEPT !.cls = path, !.route = "namespace"]]
    /\ ret' = [ret EXCEPT ![t] = NoRet]
    /\ Goto(t, "ns_test")
    /\ UNCHANGED <<execs, mod_held, services, svc_lock, instance_counter, objs,
                   init_calls, init_ok,
                   init_failed>>
    /\ UNCHANGED <<resVars, outsideServices>>

\* if path in self._ns_cache: result = self._ns_cache[path] (wl.py:275-276)
NsTest(t) ==
    /\ pc[t] = "ns_test"
    /\ IF Has(ns_cache, call[t].cls)
       THEN /\ ret' = [ret EXCEPT ![t] =
                         [st |-> "ok", v |-> Get(ns_cache, call[t].cls), e |-> NoErr]]
            /\ Goto(t, "done")
       ELSE /\ Goto(t, "ns_new")
            /\ UNCHANGED ret
    /\ UNCHANGED <<execs, mod_held, services, svc_lock, instance_counter, objs,
                   init_calls, init_ok,
                   init_failed, started, call>>
    /\ UNCHANGED <<resVars, outsideServices>>

\* result = Namespace(path); setattr(result, '__lib__', self) (wl.py:278-279)
NsNew(t) ==
    /\ pc[t] = "ns_new"
    /\ heap' = heap + 1
    /\ call' = [call EXCEPT ![t].inst = heap + 1]
    /\ Goto(t, "ns_insert")
    /\ UNCHANGED <<execs, mod_held, services, svc_lock, instance_counter, objs,
                   init_calls, init_ok,
                   init_failed, started, ret>>
    /\ UNCHANGED <<fs, plugins, ns_cache, class_cache, data_cache, module_cache,
                   common_cache, hist, last>>
    /\ UNCHANGED outsideServices

\* self._ns_cache[path] = result; return result (wl.py:280, 308-311)
NsInsert(t) ==
    LET obj == Val("ns", call[t].cls, call[t].inst) IN
    /\ pc[t] = "ns_insert"
    /\ ns_cache' = Put(ns_cache, call[t].cls, obj)
    /\ ret' = [ret EXCEPT ![t] = [st |-> "ok", v |-> obj, e |-> NoErr]]
    /\ Goto(t, "done")
    /\ UNCHANGED <<execs, mod_held, services, svc_lock, instance_counter, objs,
                   init_calls, init_ok,
                   init_failed, started, call>>
    /\ UNCHANGED <<fs, plugins, class_cache, data_cache, module_cache, common_cache,
                   heap, hist, last>>
    /\ UNCHANGED outsideServices

----------------------------------------------------------------------------
(* The name codec applied to filesystem names (src/core/string.py:91-103,  *)
(* src/white_label.py:162-168)                                             *)

MaxNameLen == 4

\* Lower-case letters and a digit
NameChars == {"a", "b", "1"}

\* Words of letters and digits joined by single underscores
WellFormed(x) ==
    /\ x[1] # "_"
    /\ x[Len(x)] # "_"
    /\ \A i \in 1 .. Len(x) - 1 : ~(x[i] = "_" /\ x[i + 1] = "_")

FsNames ==
    {x \in UNION {[1 .. n -> NameChars \cup {"_"}] : n \in 1 .. MaxNameLen} : WellFormed(x)}

\* camel_to_snake of src/white_label.py: the code of String.camel_to_snake
camel_to_snake_old(name) == camel_to_snake(name)

\* String.camel_to_snake(String.snake_to_camel(x))
RoundTrip(x) ==
    /\ codec_last' = [op |-> "String", x |-> x, camel |-> snake_to_camel(x),
                      back |-> camel_to_snake(snake_to_camel(x))]
    /\ UNCHANGED outsideCodec

\* camel_to_snake(snake_to_camel(x)) of src/white_label.py
RoundTripOld(x) ==
    /\ codec_last' = [op |-> "white_label", x |-> x, camel |-> snake_to_camel_old(x),
                      back |-> camel_to_snake_old(snake_to_camel_old(x))]
    /\ UNCHANGED outsideCodec

NextCodec ==
    \/ \E x \in FsNames : RoundTrip(x)
    \/ \E x \in FsNames : RoundTripOld(x)

NextRace ==
    \E t \in Threads :
        \/ \E name \in Names, base \in Bases : StartResolveDir(t, name, base)
        \/ NsTest(t)
        \/ NsNew(t)
        \/ NsInsert(t)

----------------------------------------------------------------------------
(* Attribute access on a namespace handle: Namespace                       *)
(* (src/core/namespace.py) and Directory (src/core/directory.py)           *)

\* The two handle classes
HandleKinds == {"namespace", "directory"}

\* A directory with its subtree and its package entry file
NsShape(init, sub) ==
    {<<<<SegA>>, "dir">>}
      \cup (IF init = "none" THEN {} ELSE {<<<<SegA, InitPy>>, init>>})
      \cup Shape(<<SegA, SegA>>, sub)

NsTrees == {NsShape(init, sub) : init \in {"none", "init_A", "init_other"},
                                 sub \in {"none", "json", "py_module"}}

\* The handles of a kind the program holds: Namespace objects returned by
\* lib._resolve, Directory(lib, path) of a directory
Handles(kind) ==
    IF kind = "namespace" THEN {e[2].p : e \in ns_cache}
    ELSE {e[1] : e \in {f \in fs : f[2] = "dir"}}

\* handle.name
NsGetattr(kind, path, name) ==
    LET g == ns_getattr(kind, Store, plugins, pkg_cache, path, name) IN
    /\ path \in Handles(kind)
    /\ ns_cache'     = g.r.store.ns
    /\ class_cache'  = g.r.store.cls
    /\ data_cache'   = g.r.store.data
    /\ module_cache' = g.r.store.mods
    /\ common_cache' = g.r.store.cmods
    /\ heap'         = g.r.store.heap
    /\ pkg_cache'    = g.pkg
    /\ ns_last' = [op |-> "getattr", kind |-> kind, path |-> path, name |-> name,
                   st |-> g.r.st, v |-> g.r.v, e |-> g.r.e,
                   resolved |-> g.resolved, calls |-> g.r.calls]
    /\ UNCHANGED <<fs, plugins, hist, last>>
    /\ UNCHANGED outsideNamespace

InitNs == InitResolver(NsTrees)

NextNs ==
    \/ \E name \in Names : Resolve(name, core_path)
    \/ \E kind \in HandleKinds : \E path \in Handles(kind), name \in Names :
          NsGetattr(kind, path, name)

----------------------------------------------------------------------------
(* The configuration service (src/core/conf.py)                            *)

\* self.__wl_module__, set by Common.set_lib in Service.__new__
ConfModule == "lib.Conf"

\* Variant: the environment is consulted before the overlay store
Conf_getitem_EnvFirst(data, env, name) ==
    IF ~data.has
    THEN [st |-> "raise", v |-> "", e |-> [type |-> "AttributeError", text |-> <<name>>]]
    ELSE IF Has(env, name) THEN [st |-> "ok", v |-> Get(env, name), e |-> NoConfErr]
    ELSE IF Has(data.d, name) THEN [st |-> "ok", v |-> Get(data.d, name), e |-> NoConfErr]
    ELSE [st |-> "raise", v |-> "",
          e |-> [type |-> "AttributeError", text |-> <<ConfModule, ".", name, " is not defined">>]]

\* Conf.__getitem__
Conf_getitem(data, env, name) ==
    IF ~data.has
    THEN [st |-> "raise", v |-> "", e |-> [type |-> "AttributeError", text |-> <<name>>]]
    ELSE IF Has(data.d, name) THEN [st |-> "ok", v |-> Get(data.d, name), e |-> NoConfErr]
    ELSE IF Has(env, name) THEN [st |-> "ok", v |-> Get(env, name), e |-> NoConfErr]
    ELSE [st |-> "raise", v |-> "",
          e |-> [type |-> "AttributeError", text |-> <<ConfModule, ".", name, " is not defined">>]]

\* conf[name], and conf.name through Conf.__getattr__
ConfGetItem(name) ==
    LET r == Conf_getitem(conf_data, environ, name) IN
    /\ conf_last' = ConfCall("get", name, "", r.st, r.v, r.e)
    /\ UNCHANGED <<conf_data, environ>>
    /\ UNCHANGED outsideConf

\* conf[name] = value, and conf.name = value through Conf.__setattr__
ConfSetItem(name, value) ==
    /\ IF ~conf_data.has
       THEN /\ conf_last' = ConfCall("set", name, value, "raise", "",
                                     [type |-> "AttributeError", text |-> <<name>>])
            /\ UNCHANGED conf_data
       ELSE /\ conf_data' = [conf_data EXCEPT !.d = Put(@, name, value)]
            /\ conf_last' = ConfCall("set", name, value, "ok", "", NoConfErr)
    /\ UNCHANGED environ
    /\ UNCHANGED outsideConf

\* The process sets or removes an environment variable
EnvSet(name, value) ==
    /\ environ' = Put(environ, name, value)
    /\ conf_last' = ConfCall("setenv", name, value, "ok", "", NoConfErr)
    /\ UNCHANGED conf_data
    /\ UNCHANGED outsideConf

EnvUnset(name) ==
    /\ Has(environ, name)
    /\ environ' = {e \in environ : e[1] # name}
    /\ conf_last' = ConfCall("unsetenv", name, "", "ok", "", NoConfErr)
    /\ UNCHANGED conf_data
    /\ UNCHANGED outsideConf

NextConf ==
    \/ \E name \in ConfKeys : ConfGetItem(name)
    \/ \E name \in ConfKeys, value \in ConfValues : ConfSetItem(name, value)
    \/ \E name \in ConfKeys, value \in ConfValues : EnvSet(name, value)
    \/ \E name \in ConfKeys : EnvUnset(name)

vars == <<resVars, svcVars, evVars, libVars, modVars, fnVars, codecVars, nsVars, confVars, nestVars, fireVars>>

Init == InitResolver(TreesOf(PluginSpecShapes, {"none", "py_module"},
                             {"json", "txt", "md"}))

Next ==
    \/ \E name \in Names, base \in Bases : Resolve(name, base)
    \/ \E path \in FilePaths : FileLoad(path)
    \/ \E c \in PluginClasses : add_plugin(c)

Spec == Init /\ [][Next]_vars

\* The resolver with plugins over the trees where a path has more than one
\* candidate: a directory beside a code or data file of its name, a code
\* file beside a data file
OrderShapes == {"none", "dir", "dir_py", "dir_json", "py_module", "py_json", "json"}

InitOrder == InitResolver(TreesOf(OrderShapes, {"none"}, {"none"}))

SpecOrder == InitOrder /\ [][Next]_vars

\* The resolver without plugins, over every tree shape
InitFs == InitResolver(Trees(TopShapes, SubShapes))

NextFs == \E name \in Names, base \in Bases : Resolve(name, base)

SpecFs == InitFs /\ [][NextFs]_vars

\* The earlier revision, which has no plugins and no services
InitOld == InitResolver(Trees(OldShapes, {"none", "py_module", "json"}))

NextOld == \E name \in Names, base \in Bases : ResolveOld(name, base)

SpecOld == InitOld /\ [][NextOld]_vars

\* Threads constructing and resolving the services of one library
InitSvc == InitResolver(WithOrWithoutRegistry(SvcTree))

SpecSvc == InitSvc /\ [][NextSvc]_vars

\* The same calls made one after the other: a call begins when none is running
NextSvcSeq ==
    \E t \in Threads :
        \/ /\ \A u \in Threads : Idle(u)
           /\ \E cls \in SvcFiles, route \in {"ctor", "resolve", "wl"} : Start(t, cls, route)
        \/ LoadStep(t)
        \/ NewLock(t)
        \/ NewGet(t)
        \/ NewCreate(t)
        \/ NewUnlock(t)
        \/ InitHas(t)
        \/ InitClear(t)
        \/ InitRead(t)
        \/ InitSet(t)
        \/ InitCall(t)
        \/ InitReturns(t)
        \/ InitRaises(t)
        \/ CtorReturn(t)

\* One call after the other, whatever the name _services resolves to
InitSvcSeq == InitResolver(WithAnyRegistry(SvcTree))

SpecSvcSeq == InitSvcSeq /\ [][NextSvcSeq]_vars

\* Resolution and File.load over trees of data files, without plugins
DataShapes == {"json", "yml", "json_null", "json_bad", "yml_json", "yml_yaml",
               "yml_jsonnull", "yml_jsonbad"}

InitData == InitResolver(TreesOf(DataShapes, {"none", "json_bad", "yml_jsonbad"}, {"none"}))

NextData ==
    \/ \E name \in Names, base \in Bases : Resolve(name, base)
    \/ \E path \in FilePaths : FileLoad(path)

SpecData == InitData /\ [][NextData]_vars

\* Threads constructing libraries
InitLib == InitResolver({{}})

SpecLibrary == InitLib /\ [][NextLibrary]_vars

\* Threads resolving the directories of a tree
InitRace == InitResolver(TreesOf({"dir"}, {"none", "dir"}, {"none", "json"}))

SpecRace == InitRace /\ [][NextRace]_vars

\* The hook registry of one library
InitEv == InitResolver({{}})

SpecEvents == InitEv /\ [][NextEvents]_vars
SpecFiring == InitEv /\ [][NextFiring]_vars
SpecKeys == InitEv /\ [][NextKeys]_vars

\* Code files, some without the class their name announces and some in a
\* directory, loaded through the library and through File on the same library
LoadShapes == {"py_module", "py_noattr", "py_notmodule", "py_value"}

InitLoad == InitResolver(TreesOf(LoadShapes \cup {"dir"}, {"none", "py_noattr"},
                                 {"none", "py_module"}))

NextLoad ==
    \/ \E name \in Names, base \in Bases : Resolve(name, base)
    \/ \E path \in FilePaths : FileLoad(path)
    \/ \E path \in FilePaths : Imp(path)

SpecLoad == InitLoad /\ [][NextLoad]_vars

\* One service file and one file of a plain Module class, loaded by threads
\* through File._load_class and WL._load_class, the service also constructed
\* directly
StampCalls == 2

StampTree == {<<WithExt(<<SegA>>, ExtPy), "py_service">>,
              <<WithExt(<<SegAB>>, ExtPy), "py_module">>}

InitStamp == InitResolver(WithOrWithoutRegistry(StampTree))

NextStamp ==
    \E t \in Threads :
        \/ \E cls \in SvcFiles, route \in {"ctor", "resolve", "wl"} :
              /\ route = "ctor" => KindOf(cls) = "py_service"
              /\ started < StampCalls
              /\ InOrder(t)
              /\ Start(t, cls, route)
        \/ LoadStep(t)
        \/ NewLock(t)
        \/ NewGet(t)
        \/ NewCreate(t)
        \/ NewUnlock(t)
        \/ InitHas(t)
        \/ InitClear(t)
        \/ InitRead(t)
        \/ InitSet(t)
        \/ InitCall(t)
        \/ InitReturns(t)
        \/ InitRaises(t)
        \/ CtorReturn(t)

SpecStamp == InitStamp /\ [][NextStamp]_vars

\* Plugins registered, some under a name already taken, between resolutions
PluginArgs == PluginClasses \cup {ShadowClass}

InitPlugins == InitResolver(TreesOf({"none", "json"}, {"none"}, {"none"}))

NextPlugins ==
    \/ \E c \in PluginArgs : add_plugin(c)
    \/ \E name \in Names, base \in Bases : Resolve(name, base)

SpecPlugins == InitPlugins /\ [][NextPlugins]_vars

\* Filesystem names converted to public names and back
SpecCodec == InitEv /\ [][NextCodec]_vars

\* Functions made from callables, compared and wrapped again
SpecFunction == InitEv /\ [][NextFunction]_vars

\* Member access on a Module instance whose methods are hooked
SpecModule == InitEv /\ [][NextModule]_vars

\* Attribute access on the handles of a directory with a package entry file
SpecNs == InitNs /\ [][NextNs]_vars

\* Lookups on the configuration service while the overlay and the environment change
SpecConf == InitEv /\ [][NextConf]_vars

\* Two service classes whose initialize() may call for the other one
InitPlans == InitProgram(WithOrWithoutRegistry(SvcTree), AllPlans)

SpecNested == InitPlans /\ [][NextNested]_vars

----------------------------------------------------------------------------
(* Properties of the resolver                                              *)

Range(seq) == {seq[i] : i \in 1 .. Len(seq)}
Min(S)     == CHOOSE x \in S : \A y \in S : x <= y

\* Registered plugins whose match accepts; those that also load without
\* raising; those that raise in match or in load
Accepting(reg) == {i \in 1 .. Len(reg) : PluginBehaviour(reg[i]).match = "yes"}
Deciding(reg)  == {i \in Accepting(reg) : PluginBehaviour(reg[i]).load # "raise"}
Faulty(c)      == \/ PluginBehaviour(c).match = "raise"
                  \/ PluginBehaviour(c).match = "yes" /\ PluginBehaviour(c).load = "raise"
NotFaulty(c)   == ~Faulty(c)
Healthy(reg)   == SelectSeq(reg, NotFaulty)

LoadValue(c, path) ==
    IF PluginBehaviour(c).load = "none" THEN None ELSE PluginValue(c, path)

HasDataFile(path) == \E i \in 1 .. Len(DataExts) : isfile(WithExt(path, DataExts[i]))
HasCodeFile(path) == isfile(WithExt(path, ExtPy))

Ops(calls) == {calls[i].op : i \in 1 .. Len(calls)}

\* C3: resolving a directory path again returns the handle the first
\* resolution returned, and does not raise
C3_SameNamespaceHandle ==
    (last.op = "resolve" /\ isdir(last.path) /\ last.seen)
        => (last.st = "ok" /\ last.v = Get(hist, last.path))

\* C4: a code file that defines its expected Module subclass resolves to a
\* value, the same one on every resolution, and the class lookup, stamping
\* and instantiation happen on the first resolution only
C4_CodeFileCachedOnce ==
    (/\ last.op = "resolve"
     /\ ~isdir(last.path)
     /\ plugins = <<>>
     /\ HasCodeFile(last.path)
     /\ KindOf(WithExt(last.path, ExtPy)) \in {"py_module", "py_service"})
        => /\ last.st = "ok"
           /\ last.v = Get(hist, last.path)
           /\ last.seen => Ops(last.calls) \cap {"exec", "getattr", "stamp", "new"} = {}

\* C5: candidates are tried in the order directory, plugins, code file, data
\* file: a directory is returned without consulting any plugin, a plugin that
\* accepts and loads wins over the files, a code file wins over data files
C5_ResolutionOrder ==
    last.op = "resolve" =>
        /\ isdir(last.path) =>
              /\ last.st = "ok" /\ last.v.k = "ns" /\ last.v.p = last.path
              /\ last.calls = <<>>
        /\ (~isdir(last.path) /\ Deciding(plugins) # {}) =>
              /\ last.st = "ok"
              /\ last.v = LoadValue(plugins[Min(Deciding(plugins))], last.path)
              /\ Ops(last.calls) \subseteq {"match", "load"}
        /\ (~isdir(last.path) /\ Deciding(plugins) = {} /\ HasCodeFile(last.path)) =>
              /\ "parse" \notin Ops(last.calls)
              /\ last.st = "ok" => last.v.k = "class"
        /\ (~isdir(last.path) /\ Deciding(plugins) = {} /\ ~HasCodeFile(last.path)) =>
              /\ Ops(last.calls) \subseteq {"match", "load", "parse"}
              /\ last.st = "ok" => last.v.k = "data"

\* A path with a code file and a data file: the registered plugins were
\* asked first, none accepted, and the class of the code file is returned
C5_Witness ==
    /\ last.op = "resolve"
    /\ ~isdir(last.path)
    /\ HasCodeFile(last.path) /\ HasDataFile(last.path)
    /\ plugins # <<>> /\ Deciding(plugins) = {}
    /\ "match" \in Ops(last.calls)
    /\ last.st = "ok" /\ last.v.k = "class"

\* C7: a plugin whose match or load raises changes nothing: the outcome and
\* the caches of lib._resolve and of File.load are those of the same call
\* with the faulty plugins unregistered
C7_FaultyPluginIgnored ==
    [][/\ last'.op = "resolve" =>
            LET r == WL_resolve(Store, Healthy(plugins), last'.name, last'.base) IN
            /\ last'.st = r.st /\ last'.v = r.v /\ last'.e = r.e
            /\ ns_cache' = r.store.ns
            /\ class_cache' = r.store.cls
            /\ data_cache' = r.store.data
       /\ last'.op = "file_load" =>
            LET r == File_load(Store, Healthy(plugins), last'.path) IN
            /\ last'.st = r.st /\ last'.v = r.v /\ last'.e = r.e
            /\ ns_cache' = r.store.ns
            /\ class_cache' = r.store.cls
            /\ data_cache' = r.store.data]_vars

C7_Witness ==
    /\ last.op = "resolve"
    /\ \E i \in 1 .. Len(last.calls) : last.calls[i].op = "load" /\ Faulty(last.calls[i].x)
    /\ Len(plugins) = 2 /\ Faulty(plugins[1]) /\ ~Faulty(plugins[2])
    /\ last.st = "ok" /\ last.v.k \in {"class", "data"}

\* C8: plugins are consulted in registration order; when the first plugin
\* whose match accepts loads a value, that value is returned and no later
\* plugin is called
ExpectedPluginCalls(reg, path, i) ==
    [j \in 1 .. i + 1 |-> IF j <= i THEN Ev("match", path, reg[j])
                                    ELSE Ev("load", path, reg[i])]

C8_FirstMatchWins ==
    (/\ last.op = "resolve"
     /\ ~isdir(last.path)
     /\ Accepting(plugins) # {}
     /\ Min(Accepting(plugins)) \in Deciding(plugins))
        => LET i == Min(Accepting(plugins)) IN
           /\ last.st = "ok"
           /\ last.v = LoadValue(plugins[i], last.path)
           /\ last.calls = ExpectedPluginCalls(plugins, last.path, i)

C8_Witness ==
    /\ last.op = "resolve"
    /\ ~isdir(last.path)
    /\ Len(plugins) = 2
    /\ Accepting(plugins) = {1, 2} /\ Deciding(plugins) = {1, 2}
    /\ last.v = PluginValue(plugins[1], last.path)

\* C9: a name with no directory, no accepting plugin, no code file and no
\* data file raises an error naming the attempted path and changes no cache
NoCandidate(path) ==
    /\ ~isdir(path)
    /\ Accepting(plugins) = {}
    /\ ~HasCodeFile(path)
    /\ ~HasDataFile(path)

C9_UnresolvedRaises ==
    [][(last'.op = "resolve" /\ NoCandidate(last'.path)) =>
         /\ last'.st = "raise"
         /\ last'.e.type = "AttributeError"
         /\ last'.e.path = last'.path
         /\ UNCHANGED <<ns_cache, class_cache, data_cache, module_cache, plugins>>]_vars

C9_Witness ==
    /\ last.op = "resolve"
    /\ NoCandidate(last.path)
    /\ plugins # <<>>
    /\ ns_cache # {}
    /\ last.st = "raise" /\ last.e.path = last.path

\* C10: a code file without the expected class, or whose class is no proper
\* Module subclass, raises an error naming the file and the expected class
\* name, and the class cache gets no entry for it
C10_LoadErrorNamesFileAndClass ==
    (/\ last.op = "resolve"
     /\ ~isdir(last.path)
     /\ plugins = <<>>
     /\ HasCodeFile(last.path)
     /\ KindOf(WithExt(last.path, ExtPy)) \in {"py_noattr", "py_notmodule"})
        => /\ last.st = "raise"
           /\ last.e.path = WithExt(last.path, ExtPy)
           /\ last.e.name = get_class_name(WithExt(last.path, ExtPy))
           /\ ~Has(class_cache, WithExt(last.path, ExtPy))

----------------------------------------------------------------------------
(* Properties of data-file resolution                                      *)

\* The data files that exist for a path, in the order of the extensions
DataFiles(path) ==
    {i \in 1 .. Len(DataExts) : isfile(WithExt(path, DataExts[i]))}
DataFile(path, i) == WithExt(path, DataExts[i])

\* The resolution reached the data branch: no directory, no plugin, no code file
DataBranch ==
    /\ last.op = "resolve"
    /\ ~isdir(last.path)
    /\ plugins = <<>>
    /\ ~HasCodeFile(last.path)

\* C16: when a data file exists for the path and its content parses, the
\* resolution returns a parsed value held by the data cache under the file
\* path, and a later resolution returns the same object without parsing
C16_DataFileParsedOnceAndCached ==
    (/\ DataBranch
     /\ \E i \in DataFiles(last.path) :
           KindOf(DataFile(last.path, i)) \in {"data_ok", "data_null"})
        => /\ last.st = "ok"
           /\ \E i \in DataFiles(last.path) :
                 /\ Has(data_cache, DataFile(last.path, i))
                 /\ last.v = Get(data_cache, DataFile(last.path, i))
           /\ last.seen => (last.v = Get(hist, last.path) /\ "parse" \notin Ops(last.calls))

\* C17: when files of several data extensions exist for the path, the file
\* of the first extension in the order yml, yaml, json decides: its value is
\* returned, and no file of a later extension is parsed or cached
C17_FirstDataExtensionWins ==
    (DataBranch /\ Cardinality(DataFiles(last.path)) > 1)
        => LET first == DataFile(last.path, Min(DataFiles(last.path))) IN
           /\ \A k \in 1 .. Len(last.calls) :
                 last.calls[k].op = "parse" => last.calls[k].p = first
           /\ \A i \in DataFiles(last.path) :
                 DataFile(last.path, i) # first => ~Has(data_cache, DataFile(last.path, i))
           /\ last.st = "ok"
           /\ Has(data_cache, first) /\ last.v = Get(data_cache, first)

\* The first data file of the path whose parse raises, every existing file
\* of an earlier extension having parsed
FailingFiles(path) ==
    {i \in DataFiles(path) :
        /\ KindOf(DataFile(path, i)) = "data_bad"
        /\ \A j \in DataFiles(path) : j < i => KindOf(DataFile(path, j)) # "data_bad"}

ParseFailed(file) ==
    /\ last.st = "raise"
    /\ last.e.type = "ParseError" /\ last.e.path = file
    /\ \E k \in 1 .. Len(last.calls) :
          last.calls[k].op = "parse" /\ last.calls[k].p = file
    /\ ~Has(data_cache, file)

\* C18: every resolution, and every File.load, that reaches a data file whose
\* parse raises parses the file (again), raises the parse error and leaves
\* no entry for the file in the data cache
C18_ParseErrorNotCached ==
    /\ DataBranch =>
          \A i \in FailingFiles(last.path) : ParseFailed(DataFile(last.path, i))
    /\ (/\ last.op = "file_load"
        /\ isfile(last.path)
        /\ KindOf(last.path) = "data_bad") => ParseFailed(last.path)

\* A second resolution has raised: the file of the earlier extension was
\* cached by the first one and is not parsed again
C18_Witness ==
    /\ DataBranch
    /\ FailingFiles(last.path) # {}
    /\ last.st = "raise" /\ last.e.type = "ParseError"
    /\ Len(last.calls) = 1
    /\ \E i \in DataFiles(last.path) : Has(data_cache, DataFile(last.path, i))

----------------------------------------------------------------------------
(* Properties of the service lifecycle                                     *)

Finished(t) == pc[t] = "done" /\ call[t].route # "none"

\* C1: whatever the interleaving of the threads that construct or resolve a
\* service class, its initialize() is called once (never twice, and once
\* when all the calls have ended), every thread gets an instance unless
\* initialize() raised, and every thread that gets one gets the same one
C1_InitializeOnce ==
    /\ \A c \in SvcFiles : init_calls[c] <= 1
    /\ \A t \in Threads :
          (Finished(t) /\ init_failed[call[t].cls] = 0) => ret[t].st = "ok"
    /\ \A t \in Threads :
          (Finished(t) /\ ret[t].st = "ok" /\ \A u \in Threads : Idle(u))
              => init_calls[call[t].cls] = 1
    /\ \A t, u \in Threads :
          (/\ Finished(t) /\ ret[t].st = "ok"
           /\ Finished(u) /\ ret[u].st = "ok"
           /\ call[t].cls = call[u].cls) => ret[t].v = ret[u].v

\* C2: a construction S(lib, name), or a resolution through it, that begins
\* after initialize() of the service has raised (and never returned) runs
\* initialize() again
C2_RetryAfterFailedInit ==
    \A t \in Threads :
        (Finished(t) /\ call[t].after_failure /\ call[t].route \in {"ctor", "resolve"})
            => init_calls[call[t].cls] > call[t].calls0

\* The instances of the service of the call (the class of its code file)
\* whose initialize() had returned when the call began
InitializedFor(t) == {i \in call[t].ready0 : objs[i].cls = call[t].cls}

\* C11: once initialize() of a service has returned, every later call of
\* its constructor and every later resolution of its name, through File or
\* through the library, returns the initialized instance and does not call
\* initialize() again
C11_InitializedServiceReused ==
    \A t \in Threads :
        (Finished(t) /\ InitializedFor(t) # {})
            => /\ ret[t].st = "ok"
               /\ ret[t].v.k = "inst" /\ ret[t].v.x \in InitializedFor(t)
               /\ "initialize" \notin Ops(call[t].calls)

\* C12: a thread that gets a service instance from the constructor or from
\* File._load_class gets it after initialize() of the service has returned
\* (initialize() never having raised)
C12_NoPartiallyInitializedService ==
    \A t \in Threads :
        (Finished(t) /\ ret[t].st = "ok" /\ init_failed[call[t].cls] = 0)
            => init_ok[call[t].cls] > 0

----------------------------------------------------------------------------
(* Properties of the library singleton                                     *)

Constructed(t) == Finished(t) /\ call[t].route = "library"

\* C14: for every library subtype initialize() runs at most once, every
\* constructor call returns an instance, the same one for one subtype and
\* different ones for different subtypes
C14_LibrarySingleton ==
    /\ \A c \in LibTypes : lib_inits[c] <= 1
    /\ \A t \in Threads : Constructed(t) => ret[t].st = "ok"
    /\ \A t, u \in Threads :
          (Constructed(t) /\ Constructed(u) /\ ret[t].st = "ok" /\ ret[u].st = "ok")
              => (call[t].cls = call[u].cls <=> ret[t].v.x = ret[u].v.x)

----------------------------------------------------------------------------
(* Properties of the resolver under concurrent resolutions                 *)

Resolved(t) == Finished(t) /\ call[t].route = "namespace" /\ ret[t].st = "ok"

\* C13: threads that resolve the same directory get the same handle, the one
\* the namespace cache holds for the path (one value is inserted per path)
C13_CheckThenInsertExclusive ==
    /\ \A t \in Threads : Resolved(t) => ret[t].v = Get(ns_cache, call[t].cls)
    /\ \A t, u \in Threads :
          (Resolved(t) /\ Resolved(u) /\ call[t].cls = call[u].cls) => ret[t].v = ret[u].v

\* C15: every step keeps each entry of the namespace, class and data caches:
\* a key once present stays present and stays mapped to the same object
C15_CachesAppendOnly ==
    [][/\ ns_cache \subseteq ns_cache'
       /\ class_cache \subseteq class_cache'
       /\ data_cache \subseteq data_cache']_vars

----------------------------------------------------------------------------
(* Properties of the hook registry                                         *)

\* C6: firing a trigger invokes every callback attached to it, also those
\* attached after one that raises, and raises nothing
C6_FiringSurvivesCallbackError ==
    ev_last.op = "trigger"
        => (ev_last.st = "ok" /\ ev_last.invoked = ev_last.attached)

\* The list of a trigger in a registry
ListOf(reg, trig) == IF Has(reg, trig) THEN Get(reg, trig) ELSE <<>>

\* The list without its i-th entry
Without(list, i) == [k \in 1 .. Len(list) - 1 |-> IF k < i THEN list[k] ELSE list[k + 1]]

\* C19: on(T, c) puts c at the end of the list of T; trigger(T) invokes the
\* callbacks of that list from its head, in order, one invocation per entry
\* and each with the fixed payload, and all of them when none of them raises
C19_FiringOrderAndMultiplicity ==
    [][/\ ev_last'.op = "on" =>
            ListOf(triggers', ev_last'.trigger)
                = Append(ListOf(triggers, ev_last'.trigger), ev_last'.callback)
       /\ ev_last'.op = "trigger" =>
            LET list == ListOf(triggers, ev_last'.trigger) IN
            /\ Len(ev_last'.invoked) <= Len(list)
            /\ \A k \in 1 .. Len(ev_last'.invoked) : ev_last'.invoked[k] = list[k]
            /\ (\A k \in 1 .. Len(list) : ~Raises(list[k].func))
                  => (ev_last'.invoked = list /\ ev_last'.st = "ok")
            /\ Len(ev_last'.payloads) = Len(ev_last'.invoked)
            /\ \A k \in 1 .. Len(ev_last'.payloads) : ev_last'.payloads[k] = [foo |-> "bar"]
            /\ triggers' = triggers]_vars

\* A callback attached twice, around another one, has been invoked twice
C19_Witness ==
    /\ ev_last.op = "trigger" /\ ev_last.st = "ok"
    /\ Len(ev_last.invoked) = 3
    /\ ev_last.invoked[1] = ev_last.invoked[3]
    /\ ev_last.invoked[1] # ev_last.invoked[2]
    /\ ev_last.invoked = ListOf(triggers, ev_last.trigger)

\* C20: off(T, c) removes the first entry of the list of T equal to c and
\* nothing else; when T is no key or c is not in its list nothing changes;
\* it never raises
C20_DetachRemovesFirstMatch ==
    [][ev_last'.op = "off" =>
         LET T    == ev_last'.trigger
             c    == ev_last'.callback
             old  == ListOf(triggers, T)
             hits == {i \in 1 .. Len(old) : old[i] = c}
         IN
         /\ ev_last'.st = "ok"
         /\ IF hits = {}
            THEN triggers' = triggers
            ELSE /\ ListOf(triggers', T) = Without(old, Min(hits))
                 /\ {e[1] : e \in triggers'} = {e[1] : e \in triggers}
                 /\ \A e \in triggers : e[1] # T => e \in triggers']_vars

\* The first of two entries of a callback has been removed: the later one
\* and the callback between them stay
C20_Witness ==
    /\ ev_last.op = "off"
    /\ Len(ev_last.attached) = 3
    /\ ev_last.attached[1] = ev_last.callback
    /\ ev_last.attached[3] = ev_last.callback
    /\ ev_last.attached[2] # ev_last.callback
    /\ ListOf(triggers, ev_last.trigger) = <<ev_last.attached[2], ev_last.attached[3]>>

\* C21: trigger(T) when no callback is attached to T (T is no key of the
\* registry, or its list is empty) invokes nothing, raises nothing and leaves
\* the registry as it was: no entry is created for T
C21_FiringWithoutHooksIsNoOp ==
    [][(ev_last'.op = "trigger" /\ ListOf(triggers, ev_last'.trigger) = <<>>) =>
         /\ ev_last'.invoked = <<>>
         /\ ev_last'.st = "ok"
         /\ triggers' = triggers
         /\ Has(triggers', ev_last'.trigger) = Has(triggers, ev_last'.trigger)]_vars

\* A trigger that is no key has been fired while another trigger has hooks
C21_Witness ==
    /\ ev_last.op = "trigger"
    /\ ~ev_last.found
    /\ ev_last.invoked = <<>>
    /\ ~Has(triggers, ev_last.trigger)
    /\ triggers # {}

\* C22: on obj.name, a public callable member that is registered as a trigger
\* is returned as a wrapper whose call fires each attached callback once, in order, and
\* then calls the member; a member that is not callable or has no hooks is
\* returned as it is
C22_HookedMemberFiresThenCalls ==
    (mod_last.op = "access" /\ HasMember(mod_last.name)) =>
        IF IsPublic(mod_last.name) /\ mod_last.registered
        THEN /\ mod_last.st = "ok"
             /\ mod_last.result = "wrapper"
             /\ mod_last.fired = mod_last.hooks
             /\ mod_last.called
        ELSE /\ mod_last.st = "ok"
             /\ mod_last.result = "member"

\* The owner and the underlying function of a callable: the object and the
\* function of a bound method, no owner and the function itself otherwise
OwnerOf(c) == IF c.kind = "plain" THEN 0 ELSE c.self
FuncOf(c) == c.func

\* C23: Function(a) == Function(b) exactly when a and b have the same owner
\* (or none both) and the same underlying function: two bound-method objects
\* of one method on one instance give equal Functions, the method on two
\* instances gives unequal ones
C23_FunctionEquality ==
    fn_last.op # "none" =>
        /\ fn_last.eq = (OwnerOf(fn_last.a) = OwnerOf(fn_last.b)
                            /\ FuncOf(fn_last.a) = FuncOf(fn_last.b))
        /\ (fn_last.a.kind = "bound" /\ fn_last.b.kind = "bound"
              /\ fn_last.a.func = fn_last.b.func)
                => (fn_last.eq = (fn_last.a.self = fn_last.b.self))

\* Two bound-method objects from separate accesses of one method on one
\* instance have been compared
C23_Witness ==
    /\ fn_last.op = "eq"
    /\ fn_last.a.kind = "bound" /\ fn_last.b.kind = "bound"
    /\ fn_last.a.id # fn_last.b.id
    /\ fn_last.a.self = fn_last.b.self /\ fn_last.a.func = fn_last.b.func
    /\ fn_last.eq

\* C24: a Function made from a Function, to any depth, has the owner and the
\* function of the first one (no nesting), equals it and has its hash
C24_WrappingIdempotent ==
    fn_last.op # "none" =>
        /\ fn_last.deep.owner = OwnerOf(fn_last.a)
        /\ fn_last.deep.func = FuncOf(fn_last.a)
        /\ Function_eq(fn_last.deep, fn_last.fa)
        /\ Function_hash(fn_last.deep) = Function_hash(fn_last.fa)

\* The Function of a bound method has been wrapped again MaxDepth times
C24_Witness ==
    /\ fn_last.op = "wrap"
    /\ fn_last.depth = MaxDepth
    /\ fn_last.a.kind = "bound"
    /\ fn_last.deep = fn_last.fa

\* The number of times the file at a path has been executed: each loader
\* executes a file when it adds the path to its cache
Executions(path) ==
    (IF path \in module_cache THEN 1 ELSE 0) + (IF path \in common_cache THEN 1 ELSE 0)

\* C25: over any sequence of load_module calls, no file has been executed
\* more than once
C25_FileExecutedAtMostOnce ==
    \A path \in module_cache \cup common_cache : Executions(path) <= 1

\* The call stamped the class of the file at path: the back-reference to the
\* library and the dotted name were set after the class was looked up
StampedIn(calls, path) ==
    \E i, j \in 1 .. Len(calls) :
        /\ i < j
        /\ calls[i].op = "getattr" /\ calls[i].p = path
        /\ calls[j].op = "stamp" /\ calls[j].p = path

\* C26: a class is put into the class cache, and returned, only after the
\* call that looked it up has stamped it with the library and the dotted
\* name; a service instance is stamped when its initialize() is entered and
\* when it is returned
C26_StampedBeforeUse ==
    [][/\ \A e \in class_cache' \ class_cache :
            e[2].k = "class" =>
                \E t \in Threads : /\ pc[t] = "cache_store" /\ pc'[t] # pc[t]
                                    /\ call[t].cls = e[1]
                                    /\ e[2] = ClassObj(call[t].klass[1], e[1],
                                                       call[t].klass[2])
                                    /\ StampedIn(call[t].calls, e[1])
       /\ \A t \in Threads :
            /\ (ret'[t] # ret[t] /\ ret'[t].st = "ok" /\ ret'[t].v.k = "class") =>
                  /\ Has(class_cache', ret'[t].v.p)
                  /\ Get(class_cache', ret'[t].v.p) = ret'[t].v
                  /\ "getattr" \in Ops(ret'[t].calls)
                        => StampedIn(ret'[t].calls, ret'[t].v.p)
            /\ pc'[t] = "in_initialize" => objs'[call'[t].inst].stamped
            /\ (ret'[t].st = "ok" /\ ret'[t].v.k = "inst")
                  => objs'[ret'[t].v.x].stamped]_vars

\* One thread has got a class from the call that looked it up while the
\* other is inside initialize() of the service
C26_Witness ==
    \E t, u \in Threads :
        /\ ret[t].st = "ok" /\ ret[t].v.k = "class"
        /\ "getattr" \in Ops(ret[t].calls)
        /\ pc[u] = "in_initialize"

\* The instances lib._services holds for the class objects of a code file
RegisteredInstances(cls) == {e[2] : e \in {s \in services : s[1][1] = cls}}

\* C27: a resolution of the code file of a Service subclass returns the
\* instance registered for the class, the same on every resolution; a
\* resolution of the code file of a Module subclass that is no Service
\* returns the class, and no instance of it exists (initialize() of the
\* service never having raised)
C27_ServiceInstanceOrClass ==
    \A t \in Threads :
        (/\ Finished(t)
         /\ call[t].route \in {"resolve", "wl"}
         /\ init_failed[call[t].cls] = 0)
            => IF KindOf(call[t].cls) = "py_service"
               THEN /\ ret[t].st = "ok"
                    /\ ret[t].v.k = "inst" /\ ret[t].v.p = call[t].cls
                    /\ RegisteredInstances(call[t].cls) = {ret[t].v.x}
               ELSE /\ ret[t].st = "ok"
                    /\ ret[t].v.k = "class" /\ ret[t].v.p = call[t].cls
                    /\ \A i \in 1 .. Len(objs) : objs[i].cls # call[t].cls

\* The dotted name of the capability of a code file below core_path: the
\* library name, the directory segments as they are, and the converted stem
\* of the file name
CanonicalName(path) ==
    JoinDots(<<lib_name>> \o SubSeq(path, 1, Len(path) - 1)
             \o <<snake_to_camel(Stem(Basename(path)))>>)

\* The stamps a call made
Stamps(calls) == {calls[i] : i \in {k \in 1 .. Len(calls) : calls[k].op = "stamp"}}

\* C28: the name stamped on the capability of core/<d1>/.../<dn>/<file>.py is
\* <lib_name>.<d1>. ... .<dn>.<snake_to_camel(file)>: core/a/a_b.py is tagged
\* lib.a.AB and core/a_b.py is tagged lib.AB
C28_CanonicalDottedName ==
    \A ev \in Stamps(last.calls) :
        /\ ev.x = CanonicalName(ev.p)
        /\ ev.p = <<SegA, SegAB \o ExtPy>>
              => ev.x = <<"l", "i", "b", ".", "a", ".", "A", "B">>
        /\ ev.p = <<SegAB \o ExtPy>> => ev.x = <<"l", "i", "b", ".", "A", "B">>

\* A class in a directory has been stamped by File.load
C28_Witness ==
    /\ last.op = "file_load"
    /\ \E ev \in Stamps(last.calls) : Len(ev.p) = 2

\* C29: for every filesystem name x made of words of letters and digits
\* joined by single underscores, camel_to_snake(snake_to_camel(x)) = x
C29_CodecRoundTrip ==
    codec_last.op # "none" => codec_last.back = codec_last.x

\* The same law for names made of lower-case letters only
C29_LowerCaseRoundTrip ==
    (codec_last.op # "none" /\ \A i \in 1 .. Len(codec_last.x) : codec_last.x[i] \in {"a", "b", "_"})
        => codec_last.back = codec_last.x

\* C30: add_plugin with a class whose name is registered raises at once,
\* creates no plugin instance and leaves the registry as it was: the plugin
\* registered under the name and the order of the registry are kept; with a
\* new name the class is instantiated and appended
C30_DuplicatePluginRejected ==
    [][last'.op = "add_plugin" =>
         LET c == last'.calls[1].x IN
         IF \E i \in 1 .. Len(plugins) : PluginName(plugins[i]) = PluginName(c)
         THEN /\ last'.st = "raise"
              /\ last'.e.type = "ValueError"
              /\ plugins' = plugins
              /\ "instantiate" \notin Ops(last'.calls)
         ELSE /\ last'.st = "ok"
              /\ plugins' = Append(plugins, c)]_vars

\* A second class with the name of a registered one has been rejected while
\* the registry holds two plugins
C30_Witness ==
    /\ last.op = "add_plugin" /\ last.st = "raise"
    /\ Len(plugins) = MaxPlugins
    /\ last.calls[1].x \notin Range(plugins)
    /\ \E i \in 1 .. Len(plugins) : PluginName(plugins[i]) = PluginName(last.calls[1].x)

----------------------------------------------------------------------------
(* Namespace handles (src/core/namespace.py, src/core/directory.py)        *)

\* C31: attribute access on a namespace handle returns the member of the
\* directory's __init__.py when that file defines the name, without calling
\* the resolver; otherwise it falls back to resolve(name, handle.path); the
\* entry file is executed at most once
EntryExecutions(calls) ==
    Cardinality({i \in 1 .. Len(calls) : calls[i].op = "exec"})

C31_EntryFileMemberFirst ==
    ns_last.op = "getattr" =>
        LET init_path == Join(ns_last.path, InitPy) IN
        /\ IF InitDefines(init_path, ns_last.name)
           THEN /\ ns_last.st = "ok"
                /\ ns_last.v = InitMember(init_path)
                /\ ~ns_last.resolved
           ELSE ns_last.resolved
        /\ EntryExecutions(ns_last.calls) <= 1
        /\ Has(pkg_cache, init_path) => isfile(init_path)

----------------------------------------------------------------------------
(* The configuration service (src/core/conf.py)                            *)

\* C32: a Conf lookup returns the overlay value when the overlay store has
\* the key, also when the environment has the same key; otherwise the value
\* of the environment variable when the environment has it; and raises a
\* not-found error that names the key when neither has it
C32_OverlayThenEnvironment ==
    [][conf_last'.op = "get" =>
          LET k == conf_last'.key IN
          /\ UNCHANGED <<conf_data, environ>>
          /\ IF Has(conf_data.d, k)
             THEN conf_last'.st = "ok" /\ conf_last'.v = Get(conf_data.d, k)
             ELSE IF Has(environ, k)
             THEN conf_last'.st = "ok" /\ conf_last'.v = Get(environ, k)
             ELSE /\ conf_last'.st = "raise"
                  /\ conf_last'.e.type = "AttributeError"
                  /\ k \in Range(conf_last'.e.text)]_vars

C32_Witness ==
    /\ conf_last.op = "get" /\ conf_last.st = "ok"
    /\ Has(conf_data.d, conf_last.key) /\ Has(environ, conf_last.key)
    /\ conf_last.v = Get(conf_data.d, conf_last.key)
    /\ conf_last.v # Get(environ, conf_last.key)

----------------------------------------------------------------------------
(* Missing resolution is a hard error (src/wl.py:268-311)                  *)

\* C33: _resolve never returns None: for every name, base path, tree and
\* plugin registry (a plugin whose load returns None included) it returns a
\* value that is not None, or raises
C33_ResolveNeverReturnsNone ==
    last.op = "resolve" /\ last.st = "ok" => last.v # None

----------------------------------------------------------------------------
(* Services whose initialize() calls for another service                   *)

\* A thread that is inside a call, its own or a nested one
Active(t) == ~Idle(t) \/ stack[t] # <<>>

\* A thread can take a step: the lookup in the registry, when it is at it
\* (NewGet has no other condition), or one of the other steps
CanStep(t) == pc[t] = "new_get" \/ ENABLED StepNestedOther(t)

\* A thread can take a step, or waits for the lock while its holder can
CanProceed(t) ==
    \/ CanStep(t)
    \/ /\ pc[t] = "new_lock"
       /\ svc_lock \in Threads \ {t}
       /\ CanStep(svc_lock)

\* C34: the construction lock is released before initialize() runs, so a
\* service whose initialize() constructs or resolves another service, of
\* any type, completes without deadlock
C34_LockReleasedBeforeInitialize ==
    \A t \in Threads :
        /\ svc_lock = t => pc[t] \in {"new_get", "new_create", "new_unlock"}
        /\ pc[t] \in {"init_call", "in_initialize"} => svc_lock # t
        /\ Active(t) => CanProceed(t)

C34_Witness ==
    \E t \in Threads :
        /\ pc[t] = "done" /\ stack[t] = <<>> /\ ret[t].st = "ok"
        /\ init_plan[call[t].cls].route = "ctor"
        /\ <<t, call[t].inst>> \in nested_made
        /\ \A c \in SvcFiles : init_ok[c] = 1

\* C38: the resolution of two services whose initialize() each resolve the
\* other terminates, without unbounded recursion and without deadlock, and
\* initialize() of each service has run exactly once
MutualPlan == \A c \in SvcFiles : init_plan[c].route \in {"resolve", "wl"}
Quiet      == \A t \in Threads : ~Active(t)

C38_MutualResolutionTerminates ==
    MutualPlan =>
        /\ \A t \in Threads : Len(stack[t]) < MaxNest
        /\ \A t \in Threads : Active(t) => CanProceed(t)
        /\ Quiet /\ started > 0 => \A c \in SvcFiles : init_calls[c] = 1

----------------------------------------------------------------------------
(* Callbacks that change the registry while it fires (src/core/events.py)  *)

\* The number of times x occurs in a list
Count(list, x) == Cardinality({k \in 1 .. Len(list) : list[k] = x})

\* C35: every callback attached to T when trigger(T) began is invoked
\* exactly once in that firing, once for each time it was attached, also
\* when callbacks detach callbacks from T or attach callbacks to T while the
\* firing is in progress
C35_AttachedAtStartInvokedOnce ==
    firing.st = "ok" =>
        \A k \in 1 .. Len(firing.attached) :
            Count(firing.invoked, firing.attached[k])
                = Count(firing.attached, firing.attached[k])

----------------------------------------------------------------------------
(* Functions as registry keys (src/core/function.py, src/core/events.py)   *)

\* The entries of the registry whose key has the owner and the function
\* object of the Function asked for
SameFunction(reg, fn) == {e \in reg : e[1].owner = fn.owner /\ e[1].func = fn.func}

\* C36: Functions that compare equal have equal hashes, and Functions of two
\* distinct function objects with one owner, module and qualified name are
\* distinct keys of the registry: has() is true for a trigger, and a firing
\* invokes callbacks, only when a callback was attached to that very owner
\* and function object
C36_DistinctFunctionsDistinctKeys ==
    /\ fn_last.op # "none" /\ fn_last.eq
          => Function_hash(fn_last.fa) = Function_hash(fn_last.fb)
    /\ \A e1 \in triggers, e2 \in triggers : e1[1] = e2[1] => e1 = e2
    /\ ev_last.op \in {"has", "trigger"} =>
          /\ ev_last.found = (SameFunction(triggers, ev_last.trigger) # {})
          /\ \A e \in SameFunction(triggers, ev_last.trigger) :
                 ev_last.op = "trigger" => ev_last.invoked = e[2]
          /\ SameFunction(triggers, ev_last.trigger) = {} => ev_last.invoked = <<>>

\* A callback is attached to one closure, and a firing of the other closure
\* of the same def statement, which has the same hash, found no key and
\* invoked nothing
C36_Witness ==
    /\ ev_last.op = "trigger"
    /\ ev_last.trigger.func = 6
    /\ ~ev_last.found /\ ev_last.invoked = <<>>
    /\ \E e \in triggers :
          /\ e[1].func = 5 /\ e[2] # <<>>
          /\ Function_hash(e[1]) = Function_hash(ev_last.trigger)

----------------------------------------------------------------------------
(* The triggers known to the registry (src/core/events.py)                 *)

\* The keys of the registry
KnownTriggers(reg) == {e[1] : e \in reg}

\* C37: the set of triggers known to the registry only grows: on(T, c) adds
\* T and nothing else; off, trigger and has add and remove nothing, so has(T)
\* is true from the first on(T, c) on, also when no callback of T is left
C37_KnownTriggersOnlyGrow ==
    [][/\ KnownTriggers(triggers) \subseteq KnownTriggers(triggers')
       /\ ev_last'.op = "on"
             => KnownTriggers(triggers') = KnownTriggers(triggers) \cup {ev_last'.trigger}
       /\ ev_last'.op \in {"off", "trigger", "has"}
             => KnownTriggers(triggers') = KnownTriggers(triggers)
       /\ ev_last'.op = "has"
             => ev_last'.found = (ev_last'.trigger \in KnownTriggers(triggers))]_vars

\* has(T) answered true for a trigger whose callbacks have all been detached
C37_Witness ==
    /\ ev_last.op = "has"
    /\ ev_last.found
    /\ ev_last.attached = <<>>
    /\ Has(triggers, ev_last.trigger) /\ Get(triggers, ev_last.trigger) = <<>>


====
